---------------------------- MODULE Spec2Model ----------------------------
(***************************************************************************)
(* Model of the tasbiaat-mamolaat backend: the request handlers of         *)
(* routes/entries.py, routes/users.py and routes/admin.py over the JSON    *)
(* file storage (utils/json_storage.py, used when MONGO_URI is unset).     *)
(*                                                                         *)
(* Dates are day numbers.  A call that raises a Python exception aborts    *)
(* the handler: Flask's generic error handler answers 500 and whatever was *)
(* written to the storage before the raise stays written.                  *)
(*                                                                         *)
(* Spec runs the request handlers one request at a time.  SpecStorage runs *)
(* the Entry model under two callers whose lookups and saves interleave.   *)
(* SpecCalls applies the pure functions of models/session.py,              *)
(* models/entry.py and utils/helpers.py to inputs drawn from bounded sets. *)
(* SpecLevels runs create_entry over a user store that holds a Saalik at  *)
(* a level without catalog record.  SpecSessions runs the routes of        *)
(* routes/auth.py and the routes that end sessions over the sessions file. *)
(* SpecWalk applies get_user_hierarchy_chain to users files with any       *)
(* murabi_id references.  SpecCycle and SpecResets run the requests that   *)
(* write cycle_days and level_start_date.  SpecSteps runs create_entry     *)
(* statement by statement, SpecRace two requests that load and save the    *)
(* same user, and SpecRoundTrip saves a new user and loads it again.       *)
(***************************************************************************)
EXTENDS Integers, FiniteSets, Sequences, TLC

VARIABLES users, entries, audit_logs, last, callers, call, sessions, tokens

vars == <<users, entries, audit_logs, last, callers, call, sessions, tokens>>

\* Python's None where an id or a query parameter is expected
None == "None"

\* Python's None where a lookup returns no object
NotFound == [found |-> FALSE]

-----------------------------------------------------------------------------
(* Bounds of the model                                                     *)

\* date.today() during the modelled requests
Today == 10
\* level_start_date of the seeded users (a day before Today)
SeedStart == 3

-----------------------------------------------------------------------------
(* Static data of the program                                              *)

\* models/user.py ROLES
ROLES == {"Saalik", "Murabi", "Masool", "Sheikh", "Admin"}

\* config.py: the keys app.config holds after from_object(Config)
ConfigKeys ==
    {"SECRET_KEY", "DATA_DIR", "REDIS_URL", "JWT_SECRET_KEY",
     "JWT_ACCESS_TOKEN_EXPIRES", "JWT_REFRESH_TOKEN_EXPIRES", "JWT_ALGORITHM",
     "SYSTEM_KEY_SECRET", "NONCE_EXPIRY_SECONDS", "CORS_ORIGINS",
     "RATELIMIT_STORAGE_URL", "DEFAULT_CYCLE_DAYS", "ZIKR_MODES", "ROLES",
     "ROLE_HIERARCHY", "SAALIK_LEVELS"}

\* current_app.config[key] raises KeyError for a key Config does not define
config_has(key) == key \in ConfigKeys

\* The attributes class Config itself defines (Config.MONGO_URI is none of them)
Config_has_attr(name) == name \in ConfigKeys

\* routes/entries.py: entries older than this many days are refused
StaleDays == 7

\* models/user.py: the callable attributes of class User
UserMethods ==
    {"validate_phone", "validate_email", "set_password", "check_password",
     "to_dict", "from_dict", "save", "find_by_id", "find_by_phone",
     "find_by_email", "find_by_identifier", "find_by_role", "find_all",
     "find_saaliks_by_murabi", "find_murabis_by_masool",
     "find_masools_by_sheikh", "can_create_role", "create_indexes"}

\* models/entry.py: the callable attributes of class Entry
EntryMethods ==
    {"compute_zikr_completed", "add_comment", "add_audit", "to_dict",
     "from_dict", "save", "find_by_id", "find_by_user_and_date",
     "find_by_murabi", "find_by_user", "get_weekly_summary", "create_indexes"}

\* Entry.find_by_user / Entry.find_by_murabi: the keyword parameters they take
Entry_find_kwargs == {"status", "start_date", "end_date"}

\* AuditLog.log_action: the keyword parameters it takes
AuditLog_log_action_kwargs ==
    {"user_id", "action", "resource_type", "resource_id", "details",
     "ip_address", "user_agent"}

\* The names models/entry.py can resolve at module level (its bson import was
\* removed, so ObjectId is none of them)
EntryModuleNames == {"datetime", "date", "Entry"}

\* A server on which a failing call is skipped and the handler carries on
NoRaise(cond) == FALSE

\* An exception raised while a request is handled propagates to Flask, which
\* answers through handle_generic_error: the rest of the handler does not run.
Raises(cond) == cond

\* A positional call binds only when it passes as many arguments as the
\* function has parameters (none of the helpers below has defaults).
ArgsBind(nargs, nparams) == nargs = nparams

\* A keyword call binds only when every keyword is a parameter.
KwargsBind(kw, params) == kw \subseteq params

-----------------------------------------------------------------------------
(* Level catalog (models/level.py)                                         *)

Categories ==
    {"farayz", "zikr", "quran_tilawat", "nawafil", "hifazat", "sleep_wake"}

\* The first level that has no catalog record
UncataloguedLevel == 7

\* A catalog in which level 5 no longer requires hifazat
default_levels_gap ==
    [l \in 0..6 |->
        IF l = 5 THEN <<"farayz", "zikr", "quran_tilawat", "nawafil", "sleep_wake">>
        ELSE IF l < 4 THEN SubSeq(<<"farayz", "zikr", "quran_tilawat", "nawafil",
                                    "hifazat">>, 1, l + 2)
        ELSE <<"farayz", "zikr", "quran_tilawat", "nawafil", "hifazat",
               "sleep_wake">>]

\* Level.initialize_default_levels: required_fields per level, in order, with
\* the "categories." prefix that validate_entry_data strips
default_levels ==
    [l \in 0..6 |->
        CASE l = 0 -> <<"farayz", "zikr">>
          [] l = 1 -> <<"farayz", "zikr", "quran_tilawat">>
          [] l = 2 -> <<"farayz", "zikr", "quran_tilawat", "nawafil">>
          [] l = 3 -> <<"farayz", "zikr", "quran_tilawat", "nawafil", "hifazat">>
          [] OTHER -> <<"farayz", "zikr", "quran_tilawat", "nawafil", "hifazat",
                        "sleep_wake">>]

\* A lookup that falls back to the record of level 0
Level_find_by_level_or_default(level_num) ==
    [level |-> level_num,
     required_fields |-> IF level_num \in DOMAIN default_levels
                         THEN default_levels[level_num] ELSE default_levels[0]]

\* Level.find_by_level: the catalog record of a level, or None
Level_find_by_level(level_num) ==
    IF level_num \in DOMAIN default_levels
    THEN [level |-> level_num, required_fields |-> default_levels[level_num]]
    ELSE NotFound

\* helpers.get_saalik_level_requirements
get_saalik_level_requirements(level) ==
    LET level_obj == Level_find_by_level(level)
    IN  IF level_obj = NotFound THEN NotFound ELSE level_obj

-----------------------------------------------------------------------------
(* Seeded user store                                                       *)

UserIds == {"adm", "shk", "mas", "mb1", "mb2", "s1", "s2"}
\* a well-formed id that no stored user has
NoUser == "nx"
UserRefs == UserIds \cup {NoUser}

ZIKR_MODES == {"auto_restart", "murabi_controlled"}

\* User.__init__: the default settings of a user
DefaultSettings ==
    [zikr_mode |-> "auto_restart", zikr_mandatory |-> FALSE,
     auto_restart_on_missed_zikr |-> FALSE]

\* The phone number a seeded user registered with
PhoneOf(u) == <<"phone", u>>

NewUser(role, murabi, masool, sheikh) ==
    [role |-> role, murabi_id |-> murabi, masool_id |-> masool,
     sheikh_id |-> sheikh, level |-> 0, level_start_date |-> SeedStart,
     cycle_days |-> 40, settings |-> DefaultSettings, is_active |-> TRUE,
     phone |-> <<>>]

SeedRecords ==
    [u \in UserIds |->
        CASE u = "adm" -> NewUser("Admin", None, None, None)
          [] u = "shk" -> NewUser("Sheikh", None, None, None)
          [] u = "mas" -> NewUser("Masool", None, None, "shk")
          [] u = "mb1" -> NewUser("Murabi", None, "mas", None)
          [] u = "mb2" -> NewUser("Murabi", None, None, None)
          [] u = "s1"  -> NewUser("Saalik", "mb1", None, None)
          [] OTHER     -> NewUser("Saalik", "mb2", None, None)]

\* The users file the server starts with: every user under its own phone
SeedUsers == [u \in UserIds |-> [SeedRecords[u] EXCEPT !.phone = PhoneOf(u)]]

\* User.find_by_id over the JSON storage
User_find_by_id(user_id) ==
    IF user_id \in DOMAIN users THEN users[user_id] ELSE NotFound

-----------------------------------------------------------------------------
(* Submitted categories                                                    *)

\* What a submission holds for one category: nothing, a value that is no
\* dict, a dict without 'completed', a dict whose 'completed' is no bool, or
\* a dict with completed = true / false.
Kinds == {"absent", "nondict", "nocompleted", "nonbool", "true", "false"}

\* data['categories'] that is no dict at all
NonDict == [nondict |-> TRUE]

CatsOf(present, zk) ==
    [c \in Categories |->
        IF c = "zikr" THEN zk ELSE IF c \in present THEN "true" ELSE "absent"]

\* A submission.  wrapped: the categories sit under a nested 'categories' key
\* of data['categories'] (the place validate_entry_data reads); otherwise
\* they are the keys of data['categories'] itself.
Sub(wrapped, present, zk) == [wrapped |-> wrapped, cats |-> CatsOf(present, zk)]

\* The submissions the modelled clients send
Submissions ==
    {NonDict,
     Sub(FALSE, {"farayz"}, "true"),
     Sub(TRUE, {"farayz"}, "true"),
     Sub(TRUE, {"farayz"}, "false"),
     Sub(TRUE, {"farayz"}, "nonbool"),
     Sub(TRUE, {}, "false")}

\* The Zikr completion the client reports in a submission
ZikrDone(sub) == sub # NonDict /\ sub.cats["zikr"] = "true"

\* A date string: the day it names and whether it is written in one of the
\* formats parse_date_from_string accepts
DateString(day, known_format) == [day |-> day, known_format |-> known_format]

\* helpers.parse_date_from_string: <<day>>, or <<>> (None) for a string in
\* none of the accepted formats
parse_date_from_string(date_string) ==
    IF date_string.known_format THEN <<date_string.day>> ELSE <<>>

\* The date strings clients send
SubmittedDates ==
    {DateString(d, TRUE) :
        d \in {Today + 1, Today, Today - StaleDays, Today - StaleDays - 1}}
    \cup {DateString(Today, FALSE)}

\* Comments clients send: none, a short one, one over 1000 characters
Comments == {"", "ok", "long"}

\* The attributes a dict has (settings is none of them)
DictAttrs == {"get", "items", "keys", "values", "update", "pop", "copy"}

\* validators.validate_comment
validate_comment(comment) == comment # "long"

\* validators.validate_entry_data(entry_data, user_level), called with
\* entry_data = data['categories']: TRUE when it returns (True, None)
RECURSIVE required_ok(_, _)
required_ok(fields, categories) ==
    IF fields = <<>> THEN TRUE
    ELSE /\ categories[Head(fields)] \in {"true", "false"}
         /\ required_ok(Tail(fields), categories)

\* What validate_entry_data returns next to False: the message and the
\* category the message names ("" when it names none)
Error(message, category) == [message |-> message, category |-> category]

\* (True, None)
NoError == Error("", "")

\* The loop over required_fields: the first message it returns
RECURSIVE first_error(_, _)
first_error(fields, categories) ==
    IF fields = <<>> THEN NoError
    ELSE LET category == Head(fields)
             kind == categories[category]
         IN  IF kind = "absent"
             THEN Error("Missing required category", category)
             ELSE IF kind = "nondict"
             THEN Error("Category must be a dictionary", category)
             ELSE IF kind = "nocompleted"
             THEN Error("Category must have 'completed' field", category)
             ELSE IF kind = "nonbool"
             THEN Error("Category 'completed' must be boolean", category)
             ELSE first_error(Tail(fields), categories)

\* The message validate_entry_data returns, NoError for (True, None)
validate_entry_data_error(entry_data, user_level) ==
    IF entry_data = NonDict THEN Error("Entry data must be a dictionary", "")
    ELSE LET level_obj == Level_find_by_level(user_level)
             categories == IF entry_data.wrapped THEN entry_data.cats
                           ELSE [c \in Categories |-> "absent"]
         IN  IF level_obj = NotFound THEN Error("Invalid user level", "")
             ELSE first_error(level_obj.required_fields, categories)

validate_entry_data(entry_data, user_level) ==
    IF entry_data = NonDict THEN FALSE
    ELSE LET level_obj == Level_find_by_level(user_level)
             \* entry_data.get('categories', {})
             categories == IF entry_data.wrapped THEN entry_data.cats
                           ELSE [c \in Categories |-> "absent"]
         IN  IF level_obj = NotFound THEN FALSE
             ELSE required_ok(level_obj.required_fields, categories)

\* helpers.calculate_zikr_completion_status(entry_data): one parameter
calculate_zikr_completion_status_params == 1
calculate_zikr_completion_status(entry_data) ==
    IF entry_data = NonDict \/ ~entry_data.wrapped THEN FALSE
    ELSE entry_data.cats["zikr"] = "true"

\* helpers.check_zikr_mandatory_rule(user, entry_date)
check_zikr_mandatory_rule(user) ==
    IF user.settings.zikr_mode = "auto_restart" THEN TRUE
    ELSE IF user.settings.zikr_mode = "murabi_controlled"
         THEN user.settings.zikr_mandatory
         ELSE FALSE

\* helpers.should_restart_cycle(user, missed_zikr_date): two parameters
should_restart_cycle_params == 2
should_restart_cycle(user) ==
    IF user.settings.zikr_mode = "auto_restart" THEN TRUE
    ELSE IF user.settings.zikr_mode = "murabi_controlled"
         THEN user.settings.auto_restart_on_missed_zikr
         ELSE FALSE

-----------------------------------------------------------------------------
(* Entry store (models/entry.py over utils/json_storage.py)                *)

EntryIds == {"e1", "e2", "e3", "e4", "e5", "e6"}
\* a well-formed id that no stored entry has
NoEntry == "ex"
EntryRefs == EntryIds \cup {NoEntry}

\* Entry.add_comment(self, user_id, role, text): three parameters after self
Entry_add_comment_params == 3

SeedSub == Sub(TRUE, {"farayz"}, "true")

EntryDoc(id, user_id, murabi_id, date, categories, zikr_completed) ==
    [_id |-> id, user_id |-> user_id, murabi_id |-> murabi_id, date |-> date,
     categories |-> categories, zikr_completed |-> zikr_completed]

\* The entries files the server may start with
SeedEntrySets ==
    {{EntryDoc("e1", "s1", "mb1", Today, SeedSub, TRUE)}}

\* JSONStorage.find_one(entries, {'_id': entry_id}): the stored document
entries_find_one_by_id(entry_id) ==
    IF \E e \in entries : e._id = entry_id
    THEN CHOOSE e \in entries : e._id = entry_id
    ELSE NotFound

\* JSONStorage.find_one(entries, {'user_id': .., 'date': ..})
entries_find_one_by_user_and_date(user_id, entry_date) ==
    IF \E e \in entries : e.user_id = user_id /\ e.date = entry_date
    THEN CHOOSE e \in entries : e.user_id = user_id /\ e.date = entry_date
    ELSE NotFound

\* Entry.from_dict(data): a stored user_id or murabi_id is a string, and the
\* conversion of a string calls ObjectId, a name entry.py does not define
Entry_from_dict_raises(data) ==
    /\ data.user_id # None \/ data.murabi_id # None
    /\ "ObjectId" \notin EntryModuleNames

\* JSONStorage.generate_id: an id no stored document has
entries_generate_id ==
    CHOOSE i \in EntryIds : \A e \in entries : e._id # i

\* JSONStorage.insert_one(entries, document): appends, whatever is stored
entries_insert_one(es, document) == es \cup {document}

\* JSONStorage.update_one(entries, {'_id': id}, {'$set': fields})
entries_update_one(es, id, categories) ==
    {IF e._id = id THEN [e EXCEPT !.categories = categories] ELSE e : e \in es}

-----------------------------------------------------------------------------
(* Audit log (models/audit_log.py)                                         *)

\* The audit log as the set of (action, acting user, resource) it records
AuditRec(action, user_id, resource_id) ==
    [action |-> action, user_id |-> user_id, resource_id |-> resource_id]

\* AuditLog.log_action(**kw): appends a record when the keywords bind
AuditLog_log_action(logs, kw, rec) ==
    IF KwargsBind(kw, AuditLog_log_action_kwargs) THEN logs \cup {rec} ELSE logs

\* The result of a handler that returns a response: the HTTP status and the
\* storage after it
Out(status, us, es, logs) ==
    [status |-> status, raised |-> FALSE, users |-> us, entries |-> es,
     audit_logs |-> logs]

\* An error handler that answers 201
Abort_created(us, es, logs) ==
    [status |-> 201, raised |-> TRUE, users |-> us, entries |-> es,
     audit_logs |-> logs]

\* The result of a handler that raises: handle_generic_error answers 500, and
\* the storage is as the handler left it
Abort(us, es, logs) ==
    [status |-> 500, raised |-> TRUE, users |-> us, entries |-> es,
     audit_logs |-> logs]

\* decorators.log_activity(action, resource_type): runs the handler, then
\* logs with the keywords user_id, action, resource_type, ip_address,
\* user_agent and metadata
log_activity(res, actor, action) ==
    LET kw == {"user_id", "action", "resource_type", "ip_address",
               "user_agent", "metadata"}
    IN  IF res.raised THEN res
        ELSE IF Raises(~KwargsBind(kw, AuditLog_log_action_kwargs))
        THEN Abort(res.users, res.entries, res.audit_logs)
        ELSE [res EXCEPT !.audit_logs =
                  AuditLog_log_action(@, kw, AuditRec(action, actor, None))]

\* decorators.role_required(*allowed_roles) after jwt_required_custom copied
\* the payload's required_roles into g: TRUE when the handler is entered
role_required(role, allowed_roles, required_roles) ==
    LET roles_to_check ==
            IF required_roles # {}
            THEN required_roles ELSE allowed_roles
    IN  role \in roles_to_check

\* The required_roles a request payload may carry ({}: absent or empty)
PayloadRoles == {{}, {"Saalik", "Murabi"}}

\* utils.auth.get_user_from_token for the token of user a: the user exists
\* and is active
Authenticated(a) == a \in DOMAIN users /\ users[a].is_active

-----------------------------------------------------------------------------
(* routes/entries.py                                                       *)

\* create_entry from line 83 on: the submission passed the role, date and
\* validation checks
create_entry_store(actor, entry_date, sub, comment) ==
    LET current_user == users[actor]
        doc == entries_find_one_by_user_and_date(actor, entry_date)
        existing_entry == doc # NotFound
        abort == Abort(users, entries, audit_logs)
        \* line 93, the call binding its first argument only
        cycle_restart_needed == should_restart_cycle(current_user)
        saved == IF existing_entry
                 THEN entries_update_one(entries, doc._id, sub)
                 ELSE entries_insert_one(entries,
                          EntryDoc(entries_generate_id, actor,
                                   current_user.murabi_id, entry_date, sub, FALSE))
        log_kw == IF existing_entry
                  THEN {"user_id", "action", "resource_type", "resource_id",
                        "old_values", "new_values"}
                  ELSE {"user_id", "action", "resource_type", "resource_id",
                        "new_values"}
        logged == AuditLog_log_action(audit_logs, log_kw,
                      AuditRec(IF existing_entry THEN "entry_updated"
                               ELSE "entry_created", actor, None))
        restart_kw == {"user_id", "action", "resource_type", "resource_id",
                       "details"}
    IN  IF existing_entry /\ Raises(Entry_from_dict_raises(doc)) THEN abort
        ELSE IF Raises(~ArgsBind(2, calculate_zikr_completion_status_params))
        THEN abort
        ELSE IF Raises("settings" \notin DictAttrs) THEN abort
        ELSE IF Raises(~ArgsBind(3, should_restart_cycle_params)) THEN abort
        ELSE IF Raises(~config_has("DEFAULT_ZIKR_MODE")) THEN abort
        ELSE IF comment # "" /\ ~validate_comment(comment)
        THEN Out(400, users, entries, audit_logs)
        ELSE IF comment # "" /\ Raises(~ArgsBind(2, Entry_add_comment_params))
        THEN abort
        ELSE IF Raises("add_audit_entry" \notin EntryMethods) THEN abort
        ELSE IF Raises(~KwargsBind(log_kw, AuditLog_log_action_kwargs))
        THEN Abort(users, saved, audit_logs)
        ELSE IF cycle_restart_needed
        THEN Out(IF existing_entry THEN 200 ELSE 201,
                 [users EXCEPT ![actor].level_start_date = Today],
                 saved,
                 AuditLog_log_action(logged, restart_kw,
                     AuditRec("cycle_restarted", actor, actor)))
        ELSE Out(IF existing_entry THEN 200 ELSE 201, users, saved, logged)

\* create_entry up to line 67: TRUE when validate_entry_data is reached
create_entry_validates(actor, date_string) ==
    LET entry_date == parse_date_from_string(date_string)
    IN  /\ users[actor].role = "Saalik"
        /\ entry_date # <<>>
        /\ entry_date[1] <= Today
        /\ Today - entry_date[1] <= StaleDays

\* create_entry up to line 81: TRUE when the submission is taken up
create_entry_accepts(actor, date_string, sub) ==
    LET entry_date == parse_date_from_string(date_string)
    IN  /\ users[actor].role = "Saalik"
        /\ entry_date # <<>>
        /\ entry_date[1] <= Today
        /\ Today - entry_date[1] <= StaleDays
        /\ validate_entry_data(sub, users[actor].level)
        /\ get_saalik_level_requirements(users[actor].level) # NotFound

\* create_entry's body
create_entry_body(actor, date_string, sub, comment) ==
    IF users[actor].role # "Saalik" THEN Out(403, users, entries, audit_logs)
    ELSE IF ~create_entry_accepts(actor, date_string, sub)
    THEN Out(400, users, entries, audit_logs)
    ELSE create_entry_store(actor, parse_date_from_string(date_string)[1], sub,
                            comment)

\* create_entry, under log_activity
create_entry_handler(actor, date_string, sub, comment) ==
    log_activity(create_entry_body(actor, date_string, sub, comment), actor,
                 "create_entry")

\* The result of a handler that returns without writing
Reply(status) == Out(status, users, entries, audit_logs)

\* The result of a handler that raises without having written
Crash == Abort(users, entries, audit_logs)

\* User.is_in_hierarchy: class User defines no such attribute
is_in_hierarchy_raises == "is_in_hierarchy" \notin UserMethods

\* The keywords get_entries passes to Entry.find_by_user / find_by_murabi
get_entries_find_kw == {"start_date", "end_date", "skip", "limit"}

\* get_entries with the query parameter user_id (None: not given)
get_entries_handler(actor, user_id) ==
    LET current_user == users[actor]
        user == User_find_by_id(user_id)
        fetch(find, count) ==
            IF Raises(find \notin EntryMethods) THEN Crash
            ELSE IF Raises(~KwargsBind(get_entries_find_kw, Entry_find_kwargs))
            THEN Crash
            ELSE IF Raises(count \notin EntryMethods) THEN Crash
            ELSE Reply(200)
    IN  IF current_user.role = "Saalik"
        THEN IF user_id # None /\ user_id # actor THEN Reply(403)
             ELSE fetch("find_by_user", "count_by_user")
        ELSE IF current_user.role = "Murabi"
        THEN IF user_id # None
             THEN IF user = NotFound \/ user.murabi_id # actor THEN Reply(403)
                  ELSE fetch("find_by_user", "count_by_user")
             ELSE fetch("find_by_murabi", "count_by_murabi")
        ELSE IF user_id # None
        THEN IF user = NotFound THEN Reply(404)
             ELSE IF current_user.role # "Admin" /\ Raises(is_in_hierarchy_raises)
             THEN Crash
             ELSE IF current_user.role # "Admin" THEN Reply(403)
             ELSE fetch("find_by_user", "count_by_user")
        ELSE IF current_user.role = "Admin"
        THEN fetch("find_all", "count_all")
        ELSE fetch("find_by_hierarchy", "count_by_hierarchy")

\* The permission check get_entry and add_entry_comment share, on a loaded
\* entry: "allow" / "deny" for can_view (can_comment) true / false, "raise"
\* when the check raises
entry_permission(actor, entry) ==
    LET current_user == users[actor]
    IN  IF current_user.role = "Saalik"
        THEN IF entry.user_id = actor THEN "allow" ELSE "deny"
        ELSE IF current_user.role = "Murabi"
        THEN IF entry.murabi_id = actor THEN "allow" ELSE "deny"
        ELSE IF current_user.role = "Admin" THEN "allow"
        ELSE IF User_find_by_id(entry.user_id) = NotFound THEN "deny"
        ELSE IF Raises(is_in_hierarchy_raises) THEN "raise"
        ELSE "deny"

\* get_entry
get_entry_handler(actor, entry_id) ==
    LET doc == entries_find_one_by_id(entry_id)
    IN  IF doc = NotFound THEN Reply(404)
        ELSE IF Raises(Entry_from_dict_raises(doc)) THEN Crash
        ELSE LET can_view == entry_permission(actor, doc)
             IN  IF can_view = "raise" THEN Crash
                 ELSE IF can_view = "deny" THEN Reply(403)
                 ELSE Reply(200)

\* add_entry_comment's body
add_entry_comment_body(actor, entry_id, comment) ==
    LET doc == entries_find_one_by_id(entry_id)
        log_kw == {"user_id", "action", "resource_type", "resource_id",
                   "new_values"}
    IN  IF doc = NotFound THEN Reply(404)
        ELSE IF Raises(Entry_from_dict_raises(doc)) THEN Crash
        ELSE LET can_comment == entry_permission(actor, doc)
             IN  IF can_comment = "raise" THEN Crash
                 ELSE IF can_comment = "deny" THEN Reply(403)
                 ELSE IF ~validate_comment(comment) THEN Reply(400)
                 ELSE IF Raises(~ArgsBind(2, Entry_add_comment_params))
                 THEN Crash
                 ELSE IF Raises(~KwargsBind(log_kw, AuditLog_log_action_kwargs))
                 THEN Crash
                 ELSE Out(200, users, entries,
                          AuditLog_log_action(audit_logs, log_kw,
                              AuditRec("entry_comment_added", actor, entry_id)))

\* add_entry_comment, under log_activity
add_entry_comment_handler(actor, entry_id, comment) ==
    log_activity(add_entry_comment_body(actor, entry_id, comment), actor,
                 "add_entry_comment")

\* helpers.get_date_range_for_week(year, week) and
\* get_date_range_for_month(year, month): two parameters each
get_date_range_params == 2

\* get_entry_summary with the query parameters user_id and period
get_entry_summary_handler(actor, user_id, period) ==
    LET current_user == users[actor]
        target_user == User_find_by_id(user_id)
        summary ==
            IF period \notin {"week", "month"} THEN Reply(400)
            ELSE IF Raises(~ArgsBind(0, get_date_range_params)) THEN Crash
            ELSE Reply(200)
    IN  IF user_id = None THEN summary
        ELSE IF current_user.role = "Saalik" /\ user_id # actor THEN Reply(403)
        ELSE IF target_user = NotFound THEN Reply(404)
        ELSE IF current_user.role = "Murabi"
        THEN IF target_user.murabi_id # actor THEN Reply(403) ELSE summary
        ELSE IF current_user.role \in {"Masool", "Sheikh"}
        THEN IF Raises(is_in_hierarchy_raises) THEN Crash ELSE Reply(403)
        ELSE summary

\* A delete_entry body that removes the entry without its own permission check
delete_entry_unchecked(actor, entry_id) ==
    Out(200, users, {e \in entries : e._id # entry_id}, audit_logs)

\* delete_entry's body, behind role_required('Masool', 'Sheikh', 'Admin')
delete_entry_body(actor, entry_id) ==
    LET current_user == users[actor]
        doc == entries_find_one_by_id(entry_id)
        log_kw == {"user_id", "action", "resource_type", "resource_id",
                   "old_values"}
    IN  IF doc = NotFound THEN Reply(404)
        ELSE IF Raises(Entry_from_dict_raises(doc)) THEN Crash
        ELSE IF current_user.role \in {"Masool", "Sheikh"}
                /\ User_find_by_id(doc.user_id) # NotFound
                /\ Raises(is_in_hierarchy_raises)
        THEN Crash
        ELSE IF current_user.role # "Admin" THEN Reply(403)
        ELSE IF Raises(~Config_has_attr("MONGO_URI")) THEN Crash
        ELSE IF Raises(~Config_has_attr("MONGO_DB_NAME")) THEN Crash
        \* db.entries.delete_one({'_id': entry._id}), then the audit record
        ELSE IF Raises(~KwargsBind(log_kw, AuditLog_log_action_kwargs))
        THEN Abort(users, entries \ {doc}, audit_logs)
        ELSE Out(200, users, entries \ {doc},
                 AuditLog_log_action(audit_logs, log_kw,
                     AuditRec("entry_deleted", actor, entry_id)))

\* delete_entry
delete_entry_handler(actor, entry_id, required_roles) ==
    IF ~role_required(users[actor].role, {"Masool", "Sheikh", "Admin"},
                      required_roles)
    THEN Reply(403)
    ELSE log_activity(delete_entry_body(actor, entry_id), actor, "delete_entry")

-----------------------------------------------------------------------------
(* routes/users.py and routes/admin.py                                     *)

\* get_user
get_user_handler(actor, user_id) ==
    LET current_user == users[actor]
        user == User_find_by_id(user_id)
    IN  IF user = NotFound THEN Reply(404)
        ELSE IF current_user.role = "Admin" \/ actor = user_id THEN Reply(200)
        ELSE IF current_user.role \in {"Sheikh", "Masool"}
        THEN IF Raises(is_in_hierarchy_raises) THEN Crash ELSE Reply(403)
        ELSE IF current_user.role = "Murabi" /\ user.murabi_id = actor
        THEN Reply(200)
        ELSE Reply(403)

\* The payloads of update_user: the fields they carry and their values.
\* settings is a dict merged into the stored settings.
SettingsPayloads ==
    {[zikr_mode |-> "murabi_controlled", zikr_mandatory |-> m,
      auto_restart_on_missed_zikr |-> r] : m, r \in BOOLEAN}
    \cup {DefaultSettings}

UpdatePayloads ==
    {[fields |-> {"settings"}, settings |-> st, is_active |-> TRUE] :
        st \in SettingsPayloads}
    \cup {[fields |-> {"is_active"}, settings |-> DefaultSettings,
           is_active |-> b] : b \in BOOLEAN}

\* validators.validate_cycle_days: the configuration defines neither
\* MIN_CYCLE_DAYS nor MAX_CYCLE_DAYS, so the defaults apply
MIN_CYCLE_DAYS == 7
MAX_CYCLE_DAYS == 365

\* A cycle_days value of a request body: an integer v, or a value that is
\* not an int (the string of v)
CycleDays(int, v) == [int |-> int, v |-> v]

\* A request body without cycle_days
NoCycleDays == CycleDays(FALSE, 0)

\* The cycle_days values of the modelled request bodies
CycleDaysPayloads ==
    {CycleDays(TRUE, v) : v \in {0 - 1, 0, MIN_CYCLE_DAYS - 1, MIN_CYCLE_DAYS,
                                 MAX_CYCLE_DAYS, MAX_CYCLE_DAYS + 1}}
    \cup {CycleDays(FALSE, 40)}

\* A validate_cycle_days that accepts every value
validate_cycle_days_any(cycle_days) == TRUE

validate_cycle_days(cycle_days) ==
    /\ cycle_days.int
    /\ ~(cycle_days.v < MIN_CYCLE_DAYS \/ cycle_days.v > MAX_CYCLE_DAYS)

\* update_user: the fields the actor may edit on user_id
editable_fields(actor, user_id) ==
    IF actor = user_id THEN {"name", "email"}
    ELSE IF users[actor].role = "Murabi"
    THEN {"name", "email", "level", "cycle_days", "settings"}
    ELSE {"name", "email", "role", "level", "cycle_days", "settings",
          "is_active"}

\* update_user's body
update_user_body(actor, user_id, data) ==
    LET current_user == users[actor]
        user == User_find_by_id(user_id)
        fields == editable_fields(actor, user_id)
        settings1 == IF "settings" \in fields \cap data.fields
                     THEN data.settings ELSE user.settings
        is_active1 == IF /\ "is_active" \in fields \cap data.fields
                         /\ current_user.role \in {"Sheikh", "Admin"}
                      THEN data.is_active ELSE user.is_active
        cycle_days1 == IF "cycle_days" \in fields \cap data.fields
                       THEN data.cycle_days.v ELSE user.cycle_days
        saved == [users EXCEPT ![user_id].settings = settings1,
                               ![user_id].is_active = is_active1,
                               ![user_id].cycle_days = cycle_days1]
        log_kw == {"user_id", "action", "resource_type", "resource_id",
                   "old_values", "new_values"}
        edit ==
            IF /\ "cycle_days" \in fields \cap data.fields
               /\ ~validate_cycle_days(data.cycle_days)
            THEN Reply(400)
            \* log_action raises inside the try: answered 500, after the save
            ELSE IF ~KwargsBind(log_kw, AuditLog_log_action_kwargs)
            THEN Out(500, saved, entries, audit_logs)
            ELSE Out(200, saved, entries,
                     AuditLog_log_action(audit_logs, log_kw,
                         AuditRec("user_updated", actor, user_id)))
    IN  IF user = NotFound THEN Reply(404)
        ELSE IF current_user.role = "Admin" \/ actor = user_id THEN edit
        ELSE IF current_user.role \in {"Sheikh", "Masool"}
        THEN IF Raises(is_in_hierarchy_raises) THEN Crash
             ELSE Reply(403)
        ELSE IF current_user.role = "Murabi" /\ user.murabi_id = actor THEN edit
        ELSE Reply(403)

\* update_user, under log_activity
update_user_handler(actor, user_id, data) ==
    log_activity(update_user_body(actor, user_id, data), actor, "update_user")

\* reset_user_cycle's body, behind role_required('Murabi', 'Masool',
\* 'Sheikh', 'Admin')
reset_user_cycle_body(actor, user_id) ==
    LET current_user == users[actor]
        user == User_find_by_id(user_id)
        saved == [users EXCEPT ![user_id].level_start_date = Today]
        log_kw == {"user_id", "action", "resource_type", "resource_id",
                   "old_values", "new_values"}
        reset ==
            IF Raises(~KwargsBind(log_kw, AuditLog_log_action_kwargs))
            THEN Abort(saved, entries, audit_logs)
            ELSE Out(200, saved, entries,
                     AuditLog_log_action(audit_logs, log_kw,
                         AuditRec("cycle_reset", actor, user_id)))
    IN  IF user = NotFound THEN Reply(404)
        ELSE IF current_user.role = "Admin" THEN reset
        ELSE IF current_user.role \in {"Sheikh", "Masool"}
        THEN IF Raises(is_in_hierarchy_raises) THEN Crash ELSE Reply(403)
        ELSE IF current_user.role = "Murabi" /\ user.murabi_id = actor THEN reset
        ELSE Reply(403)

\* reset_user_cycle
reset_user_cycle_handler(actor, user_id, required_roles) ==
    IF ~role_required(users[actor].role,
                      {"Murabi", "Masool", "Sheikh", "Admin"}, required_roles)
    THEN Reply(403)
    ELSE log_activity(reset_user_cycle_body(actor, user_id), actor,
                      "reset_user_cycle")

\* activate_user's body, behind role_required('Sheikh', 'Admin')
activate_user_body(actor, user_id) ==
    LET user == User_find_by_id(user_id)
        saved == [users EXCEPT ![user_id].is_active = TRUE]
        log_kw == {"user_id", "action", "resource_type", "resource_id",
                   "old_values", "new_values"}
    IN  IF user = NotFound THEN Reply(404)
        ELSE IF Raises(~KwargsBind(log_kw, AuditLog_log_action_kwargs))
        THEN Abort(saved, entries, audit_logs)
        ELSE Out(200, saved, entries,
                 AuditLog_log_action(audit_logs, log_kw,
                     AuditRec("user_activated", actor, user_id)))

\* activate_user
activate_user_handler(actor, user_id, required_roles) ==
    IF ~role_required(users[actor].role, {"Sheikh", "Admin"}, required_roles)
    THEN Reply(403)
    ELSE log_activity(activate_user_body(actor, user_id), actor, "activate_user")

\* bulk_cycle_reset's body, behind role_required('Admin'), called with
\* user_ids and a reset_date (<<>>: a body without one, which means today):
\* every listed Saalik is saved with level_start_date = the reset date; the
\* per-user log_action raises inside the try
bulk_cycle_reset_body(actor, user_ids, reset_date) ==
    LET reset_date_obj == IF reset_date = <<>> THEN <<Today>>
                          ELSE parse_date_from_string(reset_date[1])
        target_users ==
            {u \in user_ids : User_find_by_id(u) # NotFound /\ users[u].role = "Saalik"}
        saved == [u \in DOMAIN users |->
                     IF u \in target_users
                     THEN [users[u] EXCEPT !.level_start_date = reset_date_obj[1]]
                     ELSE users[u]]
        user_kw == {"user_id", "action", "resource_type", "resource_id",
                    "old_values", "new_values", "details"}
        bulk_kw == {"user_id", "action", "resource_type", "details"}
        user_logs ==
            IF KwargsBind(user_kw, AuditLog_log_action_kwargs)
            THEN audit_logs \cup {AuditRec("cycle_reset", actor, u) : u \in target_users}
            ELSE audit_logs
    IN  IF reset_date_obj = <<>> THEN Reply(400)
        ELSE IF target_users = {} THEN Reply(400)
        ELSE Out(200, saved, entries,
                 AuditLog_log_action(user_logs, bulk_kw,
                     AuditRec("bulk_cycle_reset", actor, None)))

\* bulk_cycle_reset
bulk_cycle_reset_handler(actor, user_ids, reset_date, required_roles) ==
    IF ~role_required(users[actor].role, {"Admin"}, required_roles)
    THEN Reply(403)
    ELSE log_activity(bulk_cycle_reset_body(actor, user_ids, reset_date), actor,
                      "bulk_cycle_reset")

\* config.py ROLE_HIERARCHY
ROLE_HIERARCHY ==
    [r \in {"Admin", "Sheikh", "Masool", "Murabi"} |->
        CASE r = "Admin" -> {"Sheikh", "Masool", "Murabi", "Saalik", "Admin"}
          [] r = "Sheikh" -> {"Masool", "Murabi"}
          [] r = "Masool" -> {"Murabi", "Saalik"}
          [] OTHER -> {"Saalik"}]

\* config.py SAALIK_LEVELS
SAALIK_LEVELS == 0..6

\* The phone numbers of create_user requests: one no user has, the one s1
\* registered with, and one that is no Pakistani phone number
FreePhone == PhoneOf("new")
BadPhone == <<"nophone">>
RequestPhones == {FreePhone, PhoneOf("s1"), BadPhone}

\* validators.validate_phone
validate_phone(phone) == phone # BadPhone

\* User.find_by_phone over the JSON storage
User_find_by_phone(phone) ==
    IF \E u \in DOMAIN users : users[u].phone = phone
    THEN users[CHOOSE u \in DOMAIN users : users[u].phone = phone]
    ELSE NotFound

\* auth.can_user_create_role: the rules are read from the config key
\* USER_CREATION_RULES, which Config does not define; a lookup that found
\* the key would read its table, here there is none to read
can_user_create_role(current_user_role, target_role) ==
    LET creation_rules == [r \in {} |-> {}]
        allowed_roles == IF current_user_role \in DOMAIN creation_rules
                         THEN creation_rules[current_user_role] ELSE {}
    IN  target_role \in allowed_roles

\* The ids JSONStorage.generate_id gives new users
NewUserIds == {"n1", "n2"}
users_generate_id == CHOOSE i \in NewUserIds : i \notin DOMAIN users

\* JSONStorage.insert_one(users, document)
users_insert_one(us, id, document) ==
    [u \in DOMAIN us \cup {id} |-> IF u = id THEN document ELSE us[u]]

\* create_user's body, with a valid name and password
create_user_body(actor, phone, role, level, cycle_days) ==
    LET current_user == users[actor]
        murabi_id ==
            IF \/ role = "Saalik"
               \/ role = "Murabi" /\ current_user.role \in {"Masool", "Sheikh", "Admin"}
               \/ role \in {"Masool", "Sheikh"} /\ current_user.role \in {"Sheikh", "Admin"}
            THEN actor ELSE None
        new_user == [NewUser(role, murabi_id, None, None) EXCEPT
                        !.phone = phone, !.level = level,
                        !.cycle_days = cycle_days.v,
                        !.level_start_date = Today]
        saved == users_insert_one(users, users_generate_id, new_user)
        log_kw == {"user_id", "action", "resource_type", "resource_id",
                   "new_values"}
    IN  IF ~validate_phone(phone) THEN Reply(400)
        \* validate_user_role reads current_app.config['USER_ROLES']
        ELSE IF Raises(~config_has("USER_ROLES")) THEN Crash
        ELSE IF role \notin ROLES THEN Reply(400)
        ELSE IF level \notin SAALIK_LEVELS THEN Reply(400)
        ELSE IF Raises(~config_has("USER_CREATION_RULES")) THEN Crash
        ELSE IF ~can_user_create_role(current_user.role, role) THEN Reply(403)
        ELSE IF User_find_by_phone(phone) # NotFound THEN Reply(400)
        ELSE IF role = "Saalik" /\ current_user.role = "Saalik" THEN Reply(403)
        \* log_action raises inside the try: answered 500, after the save
        ELSE IF ~KwargsBind(log_kw, AuditLog_log_action_kwargs)
        THEN Out(500, saved, entries, audit_logs)
        ELSE Out(201, saved, entries,
                 AuditLog_log_action(audit_logs, log_kw,
                     AuditRec("user_created", actor, users_generate_id)))

\* create_user, under log_activity
create_user_handler(actor, phone, role, level, cycle_days) ==
    log_activity(create_user_body(actor, phone, role, level, cycle_days), actor,
                 "create_user")

-----------------------------------------------------------------------------
(* Sessions and tokens (models/session.py, utils/auth.py)                  *)

\* A Session object: expires_at is a datetime in an object built by
\* Session(...), and the ISO string Session.to_dict wrote in an object that
\* Session.from_dict loaded from the storage (loaded)
SessionObj(is_active, expires_at, loaded) ==
    [is_active |-> is_active, expires_at |-> expires_at, loaded |-> loaded]

\* A comparison of datetime.utcnow() with the stored string that returns
Session_is_expired_compares(session) == FALSE

\* Session.is_expired compares datetime.utcnow() with self.expires_at: the
\* comparison of a datetime with a string raises TypeError
Session_is_expired_raises(session) == session.loaded

\* Session.is_expired
Session_is_expired(session, now) == now > session.expires_at

\* Session.is_valid: "valid", "invalid", or "raise" when is_expired raises
Session_is_valid(session, now) ==
    IF ~session.is_active THEN "invalid"
    ELSE IF Raises(Session_is_expired_raises(session)) THEN "raise"
    ELSE IF Session_is_expired(session, now) THEN "invalid"
    ELSE "valid"

\* The token_id values secrets.token_urlsafe gives new sessions
SessionIds == {"t1"}
\* a well-formed token_id that no stored session has
NoSessionId == "tx"

\* The days a session lasts from its creation
SessionDays == 30

\* The sessions file: token_id -> stored document
NoSessions == [t \in {} |-> 0]

SessionDoc(user_id, is_active, expires_at) ==
    [user_id |-> user_id, is_active |-> is_active, expires_at |-> expires_at]

\* Session.find_by_token_id: Session.from_dict of the stored document
Session_find_by_token_id(token_id) ==
    IF token_id \in DOMAIN sessions
    THEN SessionObj(sessions[token_id].is_active,
                    sessions[token_id].expires_at, TRUE)
    ELSE NotFound

\* Session.deactivate
Session_deactivate(ss, token_id) == [ss EXCEPT ![token_id].is_active = FALSE]

\* Session.find_active_by_user_id: the query {'user_id', 'is_active': True,
\* 'expires_at': {'$gt': datetime.utcnow()}} compares the stored ISO string
\* with a datetime for every active session of the user, which raises
Session_find_active_by_user_id_raises(user_id) ==
    \E t \in DOMAIN sessions :
        sessions[t].user_id = user_id /\ sessions[t].is_active

Session_find_active_by_user_id(user_id) ==
    {t \in DOMAIN sessions : /\ sessions[t].user_id = user_id
                             /\ sessions[t].is_active
                             /\ sessions[t].expires_at > Today}

\* utils.auth.revoke_user_sessions(user_id): the sessions file after it
revoke_user_sessions(user_id) ==
    [t \in DOMAIN sessions |->
        IF t \in Session_find_active_by_user_id(user_id)
        THEN [sessions[t] EXCEPT !.is_active = FALSE] ELSE sessions[t]]

\* generate_jwt_token(user_id, session_id): the claims of a token, and
\* origin, the session of the login the token descends from
Token(user_id, session_id, origin) ==
    [user_id |-> user_id, session_id |-> session_id, origin |-> origin]

\* No token in that place of the request
NoToken == Token(None, None, None)

\* A token without session_id
SessionlessToken(user_id) == Token(user_id, None, None)

\* utils.auth.get_user_from_token: "ok", "401", or "raise"
get_user_from_token(token) ==
    IF token.user_id \notin DOMAIN users THEN "401"
    ELSE IF ~users[token.user_id].is_active THEN "401"
    ELSE IF token.session_id = None THEN "ok"
    ELSE LET session == Session_find_by_token_id(token.session_id)
         IN  IF session = NotFound THEN "401"
             ELSE LET valid == Session_is_valid(session, Today)
                  IN  IF valid = "raise" THEN "raise"
                      ELSE IF valid = "invalid" THEN "401"
                      ELSE "ok"

\* jwt_required_custom: the token of the payload, else the one of the
\* Authorization header
request_token(payload, header) == IF payload # NoToken THEN payload ELSE header

jwt_required_custom(payload, header) ==
    IF request_token(payload, header) = NoToken THEN "401"
    ELSE get_user_from_token(request_token(payload, header))

\* The response when jwt_required_custom does not enter the handler
Unauthenticated(auth) == IF auth = "raise" THEN Crash ELSE Reply(401)

\* utils.auth.check_role_hierarchy compares ROLE_HIERARCHY.get(role, 0) of
\* the two roles with >: a list with the int 0 raises TypeError
check_role_hierarchy_raises(current_user_role, target_role) ==
    (current_user_role \in DOMAIN ROLE_HIERARCHY)
        # (target_role \in DOMAIN ROLE_HIERARCHY)

\* The order of the lists of ROLE_HIERARCHY, which the order of their first
\* names decides: 'Masool' < 'Murabi' < 'Saalik' < 'Sheikh'
ListRank ==
    [r \in DOMAIN ROLE_HIERARCHY |->
        CASE r = "Sheikh" -> 1 [] r = "Masool" -> 2 [] r = "Murabi" -> 3
          [] OTHER -> 4]

check_role_hierarchy(current_user_role, target_role) ==
    IF current_user_role \notin DOMAIN ROLE_HIERARCHY THEN FALSE
    ELSE ListRank[current_user_role] > ListRank[target_role]

\* The users whose logins are modelled
LoginUsers == {"mb2"}

\* A session was deactivated or its user is deactivated: the sessions a
\* token belongs to are the one it names and the one it descends from
TokenEnded(token) ==
    \/ token.user_id \in DOMAIN users /\ ~users[token.user_id].is_active
    \/ \E t \in DOMAIN sessions :
           /\ t \in {token.session_id, token.origin}
           /\ ~sessions[t].is_active

-----------------------------------------------------------------------------
(* The requests                                                            *)

\* What the model remembers of the last request: the operation, the acting
\* user, the user or entry it targets, the required_roles of its payload, the
\* submitted day and Zikr completion (create_entry; day 0 otherwise), whether the submission
\* was taken up (create_entry), whether an entry of that user and date was
\* stored when the request arrived (create_entry), whether the handler body
\* was entered, the HTTP status, and whether users or entries changed.
\* create_user adds the requested role; create_entry adds the submitted
\* categories and date string, whether validate_entry_data was reached, the
\* message it returned, and the status the handler body returned before
\* log_activity ran.  The routes of SpecSessions add the token the request
\* authenticated with and whether, when the request arrived, that token
\* belonged to a deactivated session or a deactivated user.
Request(op, actor, target, rr, entry_date, zikr, accepted, existed, ran, res) ==
    [op |-> op, actor |-> actor, target |-> target, rr |-> rr,
     date |-> entry_date, zikr |-> zikr, accepted |-> accepted,
     existed |-> existed, ran |-> ran, status |-> res.status,
     changed |-> (res.users # users \/ res.entries # entries),
     role |-> None, sub |-> NonDict, date_string |-> DateString(0, FALSE),
     validated |-> FALSE, error |-> NoError, body |-> 0,
     token |-> NoToken, ended |-> FALSE, cycle_days |-> NoCycleDays]

NoRequest ==
    [op |-> "none", actor |-> None, target |-> None, rr |-> {},
     date |-> 0, zikr |-> FALSE, accepted |-> FALSE, existed |-> FALSE,
     ran |-> FALSE, status |-> 0, changed |-> FALSE, role |-> None,
     sub |-> NonDict, date_string |-> DateString(0, FALSE),
     validated |-> FALSE, error |-> NoError, body |-> 0,
     token |-> NoToken, ended |-> FALSE, cycle_days |-> NoCycleDays]

\* The storage after a request
Commit(res) ==
    /\ users' = res.users
    /\ entries' = res.entries
    /\ audit_logs' = res.audit_logs
    /\ UNCHANGED <<callers, call, sessions, tokens>>

\* The two callers of the Entry model in SpecStorage
Callers == {"c1", "c2"}

\* A caller that has not looked up yet
Idle == [pc |-> "idle", user_id |-> None, date |-> 0, existing |-> None]

\* No function has been applied yet (SpecCalls)
NoCall == [fn |-> "none"]

Init ==
    /\ users = SeedUsers
    /\ entries \in SeedEntrySets
    /\ audit_logs = {}
    /\ last = NoRequest
    /\ callers = [c \in Callers |-> Idle]
    /\ call = NoCall
    /\ sessions = NoSessions
    /\ tokens = {}

\* The (date, categories, comment) of the modelled submissions
CreateRequests ==
    {<<d, Sub(TRUE, {"farayz"}, "false"), "">> : d \in SubmittedDates}
    \cup {<<DateString(Today, TRUE), sub, "">> : sub \in Submissions}
    \cup {<<DateString(Today - StaleDays, TRUE), Sub(TRUE, {"farayz"}, "true"),
            c>> : c \in Comments}

\* The users whose reads and submissions are modelled (a Sheikh is treated
\* by these handlers as a Masool is)
Clients == {"adm", "mas", "mb1", "mb2", "s1", "s2"}

create_entry ==
    \E actor \in {"s1", "s2", "mb1"}, rq \in CreateRequests :
        LET res == create_entry_handler(actor, rq[1], rq[2], rq[3])
            accepted == create_entry_accepts(actor, rq[1], rq[2])
            validated == create_entry_validates(actor, rq[1])
        IN  /\ Authenticated(actor)
            /\ Commit(res)
            /\ last' = [Request("create_entry", actor, actor, {},
                               IF accepted THEN rq[1].day ELSE 0,
                               accepted /\ ZikrDone(rq[2]), accepted,
                               accepted /\ entries_find_one_by_user_and_date(
                                               actor, rq[1].day) # NotFound,
                               TRUE, res)
                        EXCEPT !.sub = rq[2], !.date_string = rq[1],
                               !.validated = validated,
                               !.error = IF validated
                                         THEN validate_entry_data_error(
                                                  rq[2], users[actor].level)
                                         ELSE NoError,
                               !.body = create_entry_body(actor, rq[1], rq[2],
                                                          rq[3]).status]

\* The users and entries the modelled read and write requests target
TargetUsers == {"s1", NoUser}
TargetEntries == {"e1", NoEntry}

get_entries ==
    \E actor \in Clients, user_id \in TargetUsers \cup {None} :
        LET res == get_entries_handler(actor, user_id)
        IN  /\ Authenticated(actor)
            /\ Commit(res)
            /\ last' = Request("get_entries", actor, user_id, {}, 0,
                               FALSE, FALSE, FALSE, TRUE, res)

get_entry ==
    \E actor \in Clients, entry_id \in TargetEntries :
        LET res == get_entry_handler(actor, entry_id)
        IN  /\ Authenticated(actor)
            /\ Commit(res)
            /\ last' = Request("get_entry", actor, entry_id, {}, 0,
                               FALSE, FALSE, FALSE, TRUE, res)

add_entry_comment ==
    \E actor \in Clients, entry_id \in TargetEntries, comment \in {"ok", "long"} :
        (comment = "long" => actor = "s1") /\
        LET res == add_entry_comment_handler(actor, entry_id, comment)
        IN  /\ Authenticated(actor)
            /\ Commit(res)
            /\ last' = Request("add_entry_comment", actor, entry_id, {}, 0,
                               FALSE, FALSE, FALSE, TRUE, res)

get_entry_summary ==
    \E actor \in Clients, user_id \in TargetUsers \cup {None},
       period \in {"week", "year"} :
        \* the modelled clients misname the period only in their own summary
        (period = "year" => user_id = None) /\
        LET res == get_entry_summary_handler(actor, user_id, period)
        IN  /\ Authenticated(actor)
            /\ Commit(res)
            /\ last' = Request("get_entry_summary", actor, user_id, {}, 0,
                               FALSE, FALSE, FALSE, TRUE, res)

delete_entry ==
    \E actor \in UserIds, entry_id \in TargetEntries, rr \in PayloadRoles :
        LET res == delete_entry_handler(actor, entry_id, rr)
        IN  /\ Authenticated(actor)
            /\ Commit(res)
            /\ last' = Request("delete_entry", actor, entry_id, rr, 0,
                               FALSE, FALSE, FALSE,
                               role_required(users[actor].role,
                                   {"Masool", "Sheikh", "Admin"}, rr), res)

get_user ==
    \E actor \in Clients, user_id \in TargetUsers :
        LET res == get_user_handler(actor, user_id)
        IN  /\ Authenticated(actor)
            /\ Commit(res)
            /\ last' = Request("get_user", actor, user_id, {}, 0,
                               FALSE, FALSE, FALSE, TRUE, res)

update_user ==
    \E actor \in Clients, user_id \in {"s1", "s2", NoUser},
       data \in UpdatePayloads :
        LET res == update_user_handler(actor, user_id, data)
        IN  /\ Authenticated(actor)
            \* the modelled clients edit the settings of s1 and the
            \* activation of s2
            /\ "settings" \in data.fields => user_id # "s2"
            /\ "is_active" \in data.fields => user_id = "s2"
            /\ Commit(res)
            /\ last' = Request("update_user", actor, user_id, {}, 0,
                               FALSE, FALSE, FALSE, TRUE, res)

reset_user_cycle ==
    \E actor \in UserIds, user_id \in {"s2", NoUser}, rr \in PayloadRoles :
        LET res == reset_user_cycle_handler(actor, user_id, rr)
        IN  /\ Authenticated(actor)
            /\ Commit(res)
            /\ last' = Request("reset_user_cycle", actor, user_id, rr, 0,
                               FALSE, FALSE, FALSE,
                               role_required(users[actor].role,
                                   {"Murabi", "Masool", "Sheikh", "Admin"}, rr),
                               res)

activate_user ==
    \E actor \in UserIds, user_id \in {"s2", NoUser}, rr \in PayloadRoles :
        LET res == activate_user_handler(actor, user_id, rr)
        IN  /\ Authenticated(actor)
            /\ Commit(res)
            /\ last' = Request("activate_user", actor, user_id, rr, 0,
                               FALSE, FALSE, FALSE,
                               role_required(users[actor].role,
                                   {"Sheikh", "Admin"}, rr), res)

bulk_cycle_reset ==
    \E actor \in {"adm", "mb1"}, user_ids \in {{"s2"}, {NoUser}},
       rr \in PayloadRoles :
        \* the modelled clients name required_roles only with an unknown user id
        (rr # {} => user_ids = {NoUser}) /\
        LET res == bulk_cycle_reset_handler(actor, user_ids, <<>>, rr)
        IN  /\ Authenticated(actor)
            /\ Commit(res)
            /\ last' = Request("bulk_cycle_reset", actor, None, rr, 0,
                               FALSE, FALSE, FALSE,
                               role_required(users[actor].role, {"Admin"}, rr),
                               res)

\* create_user with a valid name and password; last.role is the role asked
\* for and last.accepted says the request is well formed: a valid phone no
\* user has, a role of ROLES and a level of SAALIK_LEVELS
create_user ==
    \E actor \in {"adm", "shk", "mas", "mb1", "s1"}, phone \in RequestPhones,
       role \in ROLES \cup {"Imam"}, level \in {0, 7},
       cycle_days \in {CycleDays(TRUE, 40), CycleDays(TRUE, 0),
                       CycleDays(FALSE, 40)} :
        \* the modelled clients send a wrong phone, role, level or
        \* cycle_days (40 is what data.get gives a body without it) one at
        \* a time
        (phone # FreePhone => role = "Saalik" /\ level = 0) /\
        (level # 0 => role = "Saalik") /\
        (cycle_days # CycleDays(TRUE, 40)
            => role = "Saalik" /\ level = 0 /\ phone = FreePhone) /\
        LET res == create_user_handler(actor, phone, role, level, cycle_days)
        IN  /\ Authenticated(actor)
            /\ \E i \in NewUserIds : i \notin DOMAIN users
            /\ Commit(res)
            /\ last' = [Request("create_user", actor, None, {}, 0, FALSE,
                                 /\ validate_phone(phone)
                                 /\ User_find_by_phone(phone) = NotFound
                                 /\ role \in ROLES
                                 /\ level \in SAALIK_LEVELS,
                                 FALSE, TRUE, res)
                        EXCEPT !.role = role, !.cycle_days = cycle_days]

Next ==
    \/ create_user
    \/ create_entry
    \/ get_entries
    \/ get_entry
    \/ add_entry_comment
    \/ get_entry_summary
    \/ delete_entry
    \/ get_user
    \/ update_user
    \/ reset_user_cycle
    \/ activate_user
    \/ bulk_cycle_reset

Spec == Init /\ [][Next]_vars

-----------------------------------------------------------------------------
(* The Entry model under two callers                                       *)

\* Entry.find_by_user_and_date as create_entry calls it at line 84: the
\* caller learns whether an entry of that user and day is stored (existing
\* is its id, or None), unless loading the stored entry raises
Entry_find_by_user_and_date(c) ==
    \E user_id \in {"s1", "s2"}, entry_date \in {Today, Today - StaleDays} :
        LET doc == entries_find_one_by_user_and_date(user_id, entry_date)
        IN  /\ callers[c].pc = "idle"
            /\ callers' =
                 [callers EXCEPT ![c] =
                    IF doc # NotFound /\ Raises(Entry_from_dict_raises(doc))
                    THEN [pc |-> "raised", user_id |-> user_id,
                          date |-> entry_date, existing |-> None]
                    ELSE [pc |-> "looked", user_id |-> user_id,
                          date |-> entry_date,
                          existing |-> IF doc = NotFound THEN None ELSE doc._id]]
            /\ UNCHANGED <<users, entries, audit_logs, last, call, sessions, tokens>>

\* Entry.save as create_entry calls it at lines 120 and 163: update_one for
\* the entry the lookup found, insert_one for a new Entry
Entry_save(c) ==
    \E sub \in {Sub(TRUE, {"farayz"}, "true"), Sub(TRUE, {"farayz"}, "false")} :
        /\ callers[c].pc = "looked"
        /\ entries' =
             IF callers[c].existing # None
             THEN entries_update_one(entries, callers[c].existing, sub)
             ELSE entries_insert_one(entries,
                      EntryDoc(entries_generate_id, callers[c].user_id,
                               users[callers[c].user_id].murabi_id,
                               callers[c].date, sub, FALSE))
        /\ callers' = [callers EXCEPT ![c].pc = "saved"]
        /\ UNCHANGED <<users, audit_logs, last, call, sessions, tokens>>

StorageInit ==
    /\ users = SeedUsers
    /\ entries \in {{}, {EntryDoc("e1", "s1", "mb1", Today, SeedSub, TRUE)}}
    /\ audit_logs = {}
    /\ last = NoRequest
    /\ callers = [c \in Callers |-> Idle]
    /\ call = NoCall
    /\ sessions = NoSessions
    /\ tokens = {}

StorageNext ==
    \/ \E c \in Callers : Entry_find_by_user_and_date(c)
    \/ \E c \in Callers : Entry_save(c)

SpecStorage == StorageInit /\ [][StorageNext]_vars

-----------------------------------------------------------------------------
(* routes/auth.py, and the routes that end sessions                        *)

\* The storage after a request that may write sessions and issue tokens
CommitSessions(res, ss, ts) ==
    /\ users' = res.users
    /\ entries' = res.entries
    /\ audit_logs' = res.audit_logs
    /\ sessions' = ss
    /\ tokens' = ts
    /\ UNCHANGED <<callers, call>>

\* The tokens a request may carry: the issued ones and a token without
\* session_id, or none
Held == tokens \cup {SessionlessToken(u) : u \in LoginUsers} \cup {NoToken}

\* What the model remembers of a request of these routes
SessionRequest(op, payload, header, target, res) ==
    LET token == request_token(payload, header)
    IN  [Request(op, token.user_id, target, {}, 0, FALSE, FALSE, FALSE,
                 jwt_required_custom(payload, header) = "ok", res)
         EXCEPT !.token = token, !.ended = TokenEnded(token)]

\* login with the right password: an inactive user is answered 401 after
\* login_failed is logged, an active one gets a session and its token
login ==
    \E u \in LoginUsers, token_id \in SessionIds :
        LET log_kw == {"user_id", "action", "resource_type", "details"}
            failed == Out(401, users, entries,
                          AuditLog_log_action(audit_logs, log_kw,
                              AuditRec("login_failed", None, None)))
            success == Out(200, users, entries,
                           AuditLog_log_action(audit_logs, log_kw,
                               AuditRec("login_success", u, None)))
            active == users[u].is_active
        IN  /\ token_id \notin DOMAIN sessions
            /\ CommitSessions(
                   IF active THEN success ELSE failed,
                   IF active
                   THEN [t \in DOMAIN sessions \cup {token_id} |->
                            IF t = token_id
                            THEN SessionDoc(u, TRUE, Today + SessionDays)
                            ELSE sessions[t]]
                   ELSE sessions,
                   IF active THEN tokens \cup {Token(u, token_id, token_id)}
                   ELSE tokens)
            /\ last' = [Request("login", u, None, {}, 0, FALSE, FALSE, FALSE,
                                TRUE, IF active THEN success ELSE failed)
                        EXCEPT !.token = IF active
                                         THEN Token(u, token_id, token_id)
                                         ELSE NoToken]

\* get_current_user_info (GET /auth/me): any route behind
\* jwt_required_custom alone
get_current_user_info ==
    \E payload \in Held, header \in Held :
        LET auth == jwt_required_custom(payload, header)
            res == IF auth # "ok" THEN Unauthenticated(auth) ELSE Reply(200)
        IN  /\ CommitSessions(res, sessions, tokens)
            /\ last' = SessionRequest("get_current_user_info", payload, header,
                                      None, res)

\* logout: deactivates the session the token of the Authorization header
\* names, logs, and returns through log_activity
logout ==
    \E payload \in Held, header \in Held :
        LET auth == jwt_required_custom(payload, header)
            actor == request_token(payload, header).user_id
            body == Out(200, users, entries,
                        AuditLog_log_action(audit_logs,
                            {"user_id", "action", "resource_type", "details"},
                            AuditRec("logout", actor, None)))
            res == IF auth # "ok" THEN Unauthenticated(auth)
                   ELSE log_activity(body, actor, "logout")
        IN  /\ CommitSessions(res,
                   IF auth = "ok" /\ header.session_id \in DOMAIN sessions
                   THEN Session_deactivate(sessions, header.session_id)
                   ELSE sessions,
                   tokens)
            /\ last' = SessionRequest("logout", payload, header, None, res)

\* refresh_token: a new token for g.current_user with the session_id of the
\* token of the Authorization header, None without such a header
refresh_token ==
    \E payload \in Held, header \in Held :
        LET auth == jwt_required_custom(payload, header)
            token == request_token(payload, header)
            new_token == Token(token.user_id, header.session_id, token.origin)
            res == IF auth # "ok" THEN Unauthenticated(auth) ELSE Reply(200)
        IN  /\ CommitSessions(res, sessions,
                   IF auth = "ok" THEN tokens \cup {new_token} ELSE tokens)
            /\ last' = SessionRequest("refresh_token", payload, header, None,
                                      res)

\* revoke_session (DELETE /auth/sessions/<session_id>)
revoke_session ==
    \E payload \in Held \cup {SessionlessToken("s1")},
       session_id \in SessionIds \cup {NoSessionId} :
        LET auth == jwt_required_custom(payload, NoToken)
            actor == payload.user_id
            found == session_id \in DOMAIN sessions
            own == found /\ sessions[session_id].user_id = actor
            body == IF ~found THEN Reply(404)
                    ELSE IF ~own THEN Reply(403)
                    ELSE Out(200, users, entries,
                             AuditLog_log_action(audit_logs,
                                 {"user_id", "action", "resource_type",
                                  "resource_id", "details"},
                                 AuditRec("session_revoked", actor, session_id)))
            res == IF auth # "ok" THEN Unauthenticated(auth)
                   ELSE log_activity(body, actor, "revoke_session")
        IN  /\ CommitSessions(res,
                   IF auth = "ok" /\ own
                   THEN Session_deactivate(sessions, session_id) ELSE sessions,
                   tokens)
            /\ last' = SessionRequest("revoke_session", payload, NoToken,
                                      session_id, res)

\* force_logout_users with user_ids = [user_id], behind
\* role_required('Admin'): revoke_user_sessions runs inside a try whose
\* except records the failure
force_logout_users ==
    \E actor \in {"adm", "mas"}, user_id \in LoginUsers \cup {NoUser} :
        LET payload == SessionlessToken(actor)
            tried == user_id # actor /\ User_find_by_id(user_id) # NotFound
            revoked == tried /\ ~Raises(Session_find_active_by_user_id_raises(
                                            user_id))
            body == Out(200, users, entries,
                        IF revoked
                        THEN AuditLog_log_action(audit_logs,
                                 {"user_id", "action", "resource_type",
                                  "resource_id", "details"},
                                 AuditRec("user_forced_logout", actor, user_id))
                        ELSE audit_logs)
            entered == role_required(users[actor].role, {"Admin"}, {})
            res == IF ~entered THEN Reply(403)
                   ELSE log_activity(body, actor, "force_logout")
        IN  /\ Authenticated(actor)
            /\ CommitSessions(res,
                   IF entered /\ revoked THEN revoke_user_sessions(user_id)
                   ELSE sessions,
                   tokens)
            /\ last' = [SessionRequest("force_logout_users", payload, NoToken,
                                       user_id, res) EXCEPT !.ran = entered]

\* deactivate_user's body, behind role_required('Sheikh', 'Admin'): saved
\* is TRUE when the user was saved deactivated, revoked when
\* revoke_user_sessions returned
deactivate_user_body(actor, user_id) ==
    LET current_user == users[actor]
        user == User_find_by_id(user_id)
        saved == [users EXCEPT ![user_id].is_active = FALSE]
        log_kw == {"user_id", "action", "resource_type", "resource_id",
                   "old_values", "new_values"}
        out(res, revoked) == [res |-> res, revoked |-> revoked]
    IN  IF user = NotFound THEN out(Reply(404), FALSE)
        ELSE IF actor = user_id THEN out(Reply(400), FALSE)
        ELSE IF Raises(check_role_hierarchy_raises(current_user.role, user.role))
        THEN out(Crash, FALSE)
        ELSE IF ~check_role_hierarchy(current_user.role, user.role)
        THEN out(Reply(403), FALSE)
        ELSE IF Raises(Session_find_active_by_user_id_raises(user_id))
        THEN out(Abort(saved, entries, audit_logs), FALSE)
        ELSE IF Raises(~KwargsBind(log_kw, AuditLog_log_action_kwargs))
        THEN out(Abort(saved, entries, audit_logs), TRUE)
        ELSE out(Out(200, saved, entries,
                     AuditLog_log_action(audit_logs, log_kw,
                         AuditRec("user_deactivated", actor, user_id))), TRUE)

deactivate_user ==
    \E actor \in {"adm", "shk", "mas"}, user_id \in LoginUsers \cup {"s1"} :
        LET entered == role_required(users[actor].role, {"Sheikh", "Admin"}, {})
            body == deactivate_user_body(actor, user_id)
            res == IF ~entered THEN Reply(403)
                   ELSE log_activity(body.res, actor, "deactivate_user")
        IN  /\ Authenticated(actor)
            /\ CommitSessions(res,
                   IF entered /\ body.revoked THEN revoke_user_sessions(user_id)
                   ELSE sessions,
                   tokens)
            /\ last' = [SessionRequest("deactivate_user",
                                       SessionlessToken(actor), NoToken,
                                       user_id, res) EXCEPT !.ran = entered]

SessionsNext ==
    \/ login
    \/ get_current_user_info
    \/ logout
    \/ refresh_token
    \/ revoke_session
    \/ force_logout_users
    \/ deactivate_user

SpecSessions == Init /\ [][SessionsNext]_vars

-----------------------------------------------------------------------------
(* Pure functions applied to bounded inputs                                *)

\* The instants of the session clock (datetime.utcnow()) that are modelled
MaxInstant == 3

\* The longest morning or evening list of Zikr items that is modelled
MaxItems == 2

\* The lists of Zikr items, each item given by its 'done' value
ItemLists ==
    UNION {[1..n -> BOOLEAN] : n \in 0..MaxItems}

\* all(item.get('done', False) for item in items)
all_done(items) == \A i \in DOMAIN items : items[i]

\* Entry.compute_zikr_completed on categories whose zikr holds the lists
\* morning and evening
compute_zikr_completed(morning, evening) ==
    all_done(morning) /\ all_done(evening)

\* The cycle lengths and the ages of level_start_date that are modelled
CycleLengths == {0, 1, 3, 40}
MaxAge == 4

\* days_elapsed and current_day of calculate_cycle_progress
days_elapsed(today, start_date) == today - start_date + 1

\* current_day without the cap at cycle_days
current_day_uncapped(elapsed, cycle_days) == elapsed

current_day(elapsed, cycle_days) ==
    IF elapsed < cycle_days THEN elapsed ELSE cycle_days

\* round(x, 2) of x = 100 * n / d, in hundredths (no n, d below gives a tie)
round2_percent(n, d) == (2 * 10000 * n + d) \div (2 * d)

\* calculate_cycle_progress for a user without level_start_date, with
\* days_remaining wrongly zero
no_start_progress_none_remaining(cycle_days) ==
    [current_day |-> 0, total_days |-> cycle_days, progress_percentage |-> 0,
     days_remaining |-> 0, is_completed |-> FALSE]

\* calculate_cycle_progress for a user without level_start_date
no_start_progress(cycle_days) ==
    [current_day |-> 0, total_days |-> cycle_days, progress_percentage |-> 0,
     days_remaining |-> cycle_days, is_completed |-> FALSE]

\* current_day / user.cycle_days raises ZeroDivisionError
ZeroDivision == [raised |-> "ZeroDivisionError"]

\* helpers.calculate_cycle_progress(user): level_start_date is <<>> when the
\* user has none and <<day>> otherwise; progress_percentage is in hundredths
calculate_cycle_progress(level_start_date, cycle_days) ==
    IF level_start_date = <<>> THEN no_start_progress(cycle_days)
    ELSE IF Raises(cycle_days = 0) THEN ZeroDivision
    ELSE LET elapsed == days_elapsed(Today, level_start_date[1])
             cd == current_day(elapsed, cycle_days)
         IN  [current_day |-> cd, total_days |-> cycle_days,
              progress_percentage |-> round2_percent(cd, cycle_days),
              days_remaining |-> IF cycle_days - elapsed > 0
                                 THEN cycle_days - elapsed ELSE 0,
              is_completed |-> elapsed >= cycle_days]

\* Session.is_valid applied to a session at an instant
call_Session_is_valid ==
    \E is_active \in BOOLEAN, expires_at \in 0..MaxInstant,
       now \in 0..MaxInstant, loaded \in BOOLEAN :
        /\ call' = [fn |-> "Session.is_valid", is_active |-> is_active,
                    expires_at |-> expires_at, now |-> now, loaded |-> loaded,
                    result |-> Session_is_valid(
                        SessionObj(is_active, expires_at, loaded), now)]
        /\ UNCHANGED <<users, entries, audit_logs, last, callers, sessions, tokens>>

\* The two Zikr completion functions applied to the categories of one
\* submission: zikr holds the lists morning and evening and, by zk, no
\* 'completed' key, completed = true or completed = false
call_zikr_completion ==
    \E zk \in {"nocompleted", "true", "false"},
       morning \in ItemLists, evening \in ItemLists :
        /\ call' = [fn |-> "zikr_completion", zk |-> zk, morning |-> morning,
                    evening |-> evening,
                    calculate_zikr_completion_status |->
                        calculate_zikr_completion_status(Sub(TRUE, {}, zk)),
                    compute_zikr_completed |->
                        compute_zikr_completed(morning, evening)]
        /\ UNCHANGED <<users, entries, audit_logs, last, callers, sessions, tokens>>

\* calculate_cycle_progress applied to a user
call_calculate_cycle_progress ==
    \E level_start_date \in {<<>>} \cup {<<d>> : d \in (Today - MaxAge)..Today},
       cycle_days \in CycleLengths :
        /\ call' = [fn |-> "calculate_cycle_progress",
                    level_start_date |-> level_start_date,
                    cycle_days |-> cycle_days,
                    result |-> calculate_cycle_progress(level_start_date,
                                                        cycle_days)]
        /\ UNCHANGED <<users, entries, audit_logs, last, callers, sessions, tokens>>

\* Level.find_by_level applied to a level of the seeded catalog or to the
\* first level beyond it
call_Level_find_by_level ==
    \E level \in 0..UncataloguedLevel :
        /\ call' = [fn |-> "Level.find_by_level", level |-> level,
                    result |-> Level_find_by_level(level)]
        /\ UNCHANGED <<users, entries, audit_logs, last, callers, sessions, tokens>>

CallsNext ==
    \/ call_Level_find_by_level
    \/ call_Session_is_valid
    \/ call_zikr_completion
    \/ call_calculate_cycle_progress

SpecCalls == Init /\ [][CallsNext]_vars

-----------------------------------------------------------------------------
(* Two requests of an Admin on the same users file, statement by statement *)

\* A request that has loaded its user: loaded is the object User.find_by_id
\* built, level the level asked for, first says the other caller had not
\* saved yet when this one loaded
Loaded(op, user_id, level, loaded, first) ==
    [pc |-> "loaded", op |-> op, user_id |-> user_id, level |-> level,
     loaded |-> loaded, first |-> first]

\* The other caller has not saved
OtherNotSaved(c) == \A d \in Callers \ {c} : callers[d].pc # "saved"

\* reset_user_cycle up to its permission check (users.py:434-457)
reset_user_cycle_find(c) ==
    \E user_id \in {"s1", "s2"} :
        /\ callers[c].pc = "idle"
        /\ User_find_by_id(user_id) # NotFound
        /\ callers' = [callers EXCEPT ![c] =
                          Loaded("reset_user_cycle", user_id, 0,
                                 User_find_by_id(user_id), OtherNotSaved(c))]
        /\ UNCHANGED <<users, entries, audit_logs, last, call, sessions, tokens>>

\* update_user with a body of level alone, up to the validation of the
\* level (users.py:287-378)
update_user_find(c) ==
    \E user_id \in {"s1", "s2"}, level \in {1, 2, UncataloguedLevel} :
        /\ callers[c].pc = "idle"
        /\ User_find_by_id(user_id) # NotFound
        /\ callers' = [callers EXCEPT ![c] =
                          IF level \in SAALIK_LEVELS
                          THEN Loaded("update_user", user_id, level,
                                      User_find_by_id(user_id), OtherNotSaved(c))
                          ELSE [pc |-> "refused", op |-> "update_user",
                                user_id |-> user_id, level |-> level]]
        /\ UNCHANGED <<users, entries, audit_logs, last, call, sessions, tokens>>

\* User.save of a loaded user: update_one by _id with $set of the whole
\* to_dict record of the object
User_save(us, user_id, user) == [us EXCEPT ![user_id] = user]

\* reset_user_cycle from line 459: the reset and the save
reset_user_cycle_save(c) ==
    /\ callers[c].pc = "loaded"
    /\ callers[c].op = "reset_user_cycle"
    /\ users' = User_save(users, callers[c].user_id,
                    [callers[c].loaded EXCEPT !.level_start_date = Today])
    /\ callers' = [callers EXCEPT ![c].pc = "saved"]
    /\ UNCHANGED <<entries, audit_logs, last, call, sessions, tokens>>

\* update_user from line 377: the new level and the save
update_user_save(c) ==
    /\ callers[c].pc = "loaded"
    /\ callers[c].op = "update_user"
    /\ users' = User_save(users, callers[c].user_id,
                    [callers[c].loaded EXCEPT !.level = callers[c].level])
    /\ callers' = [callers EXCEPT ![c].pc = "saved"]
    /\ UNCHANGED <<entries, audit_logs, last, call, sessions, tokens>>

RaceNext ==
    \/ \E c \in Callers : reset_user_cycle_find(c)
    \/ \E c \in Callers : update_user_find(c)
    \/ \E c \in Callers : reset_user_cycle_save(c)
    \/ \E c \in Callers : update_user_save(c)

SpecRace == Init /\ [][RaceNext]_vars

-----------------------------------------------------------------------------
(* User.save and User.find_by_id (models/user.py)                          *)

\* The values of a parent reference: None, an id as a str (the ids of the
\* JSON storage, and of tokens), an id as an ObjectId (the ids MongoDB gives)
NoneRef == [type |-> "NoneType"]
StrRef(id) == [type |-> "str", id |-> id]
ObjectIdRef(id) == [type |-> "ObjectId", id |-> id]

\* User.to_dict on a reference: str(ref) if ref else None
User_to_dict_ref(ref) == IF ref = NoneRef THEN NoneRef ELSE StrRef(ref.id)

\* User.to_dict: the fields of the round trip
User_to_dict(user) ==
    [name |-> user.name, phone |-> user.phone, role |-> user.role,
     murabi_id |-> User_to_dict_ref(user.murabi_id),
     masool_id |-> User_to_dict_ref(user.masool_id),
     sheikh_id |-> User_to_dict_ref(user.sheikh_id)]

\* User.from_dict: cls(**data) takes name, phone, role and the references
\* as the document has them
User_from_dict(data) ==
    [name |-> data.name, phone |-> data.phone, role |-> data.role,
     murabi_id |-> data.murabi_id, masool_id |-> data.masool_id,
     sheikh_id |-> data.sheikh_id]

\* u.save() of a new user, then User.find_by_id(u._id): insert_one stores
\* the document to_dict built under a new _id (either storage keeps str
\* values as they are), find_one returns it and from_dict loads it
User_save_find_by_id(user) == User_from_dict(User_to_dict(user))

\* The new users saved: ObjectId references when the storage is MongoDB
\* (USE_MONGODB, MONGO_URI set), str references in either storage
RoundTripUsers ==
    {[use_mongodb |-> m, name |-> "Test User", phone |-> PhoneOf(p),
      role |-> r, murabi_id |-> mb, masool_id |-> ms, sheikh_id |-> sh] :
        m \in BOOLEAN, p \in {"new", "other"}, r \in {"Saalik", "Murabi"},
        mb \in {NoneRef, StrRef("mb1"), ObjectIdRef("mb1")},
        ms \in {NoneRef, StrRef("mas"), ObjectIdRef("mas")},
        sh \in {NoneRef, StrRef("shk"), ObjectIdRef("shk")}}

call_User_save_find_by_id ==
    \E user \in RoundTripUsers :
        /\ \A ref \in {user.murabi_id, user.masool_id, user.sheikh_id} :
               ref.type = "ObjectId" => user.use_mongodb
        /\ call' = [fn |-> "User.save", user |-> user,
                    result |-> User_save_find_by_id(user)]
        /\ UNCHANGED <<users, entries, audit_logs, last, callers, sessions, tokens>>

SpecRoundTrip == Init /\ [][call_User_save_find_by_id]_vars

-----------------------------------------------------------------------------
(* create_entry statement by statement (routes/entries.py:69-201)          *)

\* An order that saves the entry before validating it
create_entry_order_save_first ==
    <<"persist_entry", "validate", "compute", "decide", "persist_restart",
      "audit">>

\* The statements of create_entry after the role and date checks, in the
\* order of the source: validate_entry_data (line 70), the level
\* requirements, the stored entry and the Zikr completion (74-87), the
\* mandatory rule and the restart decision (90-93), the save of the entry
\* with its audit record (95-175), the save of the restarted user (178-179),
\* the cycle_restarted audit record (181-190)
create_entry_order ==
    <<"validate", "compute", "decide", "persist_entry", "persist_restart",
      "audit">>

\* What a statement leaves: status 0 to go on, else the answer; the storage;
\* the restart decision
Goes(us, es, logs, restart) ==
    [status |-> 0, raised |-> FALSE, users |-> us, entries |-> es,
     audit_logs |-> logs, restart |-> restart]
Ends(res, restart) ==
    [status |-> res.status, raised |-> res.raised, users |-> res.users,
     entries |-> res.entries, audit_logs |-> res.audit_logs,
     restart |-> restart]

\* One statement of the request rq
create_entry_statement(name, rq) ==
    LET actor == rq.actor
        \* g.current_user, the object jwt_required_custom loaded
        current_user == rq.current_user
        entry_date == parse_date_from_string(rq.date_string)[1]
        doc == entries_find_one_by_user_and_date(actor, entry_date)
        existing_entry == doc # NotFound
        on == Goes(users, entries, audit_logs, rq.restart)
        saved == IF existing_entry
                 THEN entries_update_one(entries, doc._id, rq.sub)
                 ELSE entries_insert_one(entries,
                          EntryDoc(entries_generate_id, actor,
                                   current_user.murabi_id, entry_date, rq.sub,
                                   FALSE))
        log_kw == IF existing_entry
                  THEN {"user_id", "action", "resource_type", "resource_id",
                        "old_values", "new_values"}
                  ELSE {"user_id", "action", "resource_type", "resource_id",
                        "new_values"}
        restart_kw == {"user_id", "action", "resource_type", "resource_id",
                       "details"}
    IN  CASE name = "validate" ->
                IF ~validate_entry_data(rq.sub, current_user.level)
                THEN Ends(Reply(400), rq.restart) ELSE on
          [] name = "compute" ->
                IF get_saalik_level_requirements(current_user.level) = NotFound
                THEN Ends(Reply(400), rq.restart)
                ELSE IF existing_entry /\ Raises(Entry_from_dict_raises(doc))
                THEN Ends(Crash, rq.restart)
                ELSE IF Raises(~ArgsBind(2, calculate_zikr_completion_status_params))
                THEN Ends(Crash, rq.restart)
                ELSE on
          [] name = "decide" ->
                IF Raises("settings" \notin DictAttrs)
                THEN Ends(Crash, rq.restart)
                ELSE IF Raises(~ArgsBind(3, should_restart_cycle_params))
                THEN Ends(Crash, rq.restart)
                ELSE IF Raises(~config_has("DEFAULT_ZIKR_MODE"))
                THEN Ends(Crash, rq.restart)
                ELSE Goes(users, entries, audit_logs,
                          should_restart_cycle(current_user))
          [] name = "persist_entry" ->
                IF rq.comment # "" /\ ~validate_comment(rq.comment)
                THEN Ends(Reply(400), rq.restart)
                ELSE IF /\ rq.comment # ""
                        /\ Raises(~ArgsBind(2, Entry_add_comment_params))
                THEN Ends(Crash, rq.restart)
                ELSE IF Raises("add_audit_entry" \notin EntryMethods)
                THEN Ends(Crash, rq.restart)
                ELSE IF Raises(~KwargsBind(log_kw, AuditLog_log_action_kwargs))
                THEN Ends(Abort(users, saved, audit_logs), rq.restart)
                ELSE Goes(users, saved,
                          AuditLog_log_action(audit_logs, log_kw,
                              AuditRec(IF existing_entry THEN "entry_updated"
                                       ELSE "entry_created", actor, None)),
                          rq.restart)
          [] name = "persist_restart" ->
                \* User.save: update_one by _id of the whole record of the
                \* loaded object, its result not looked at
                IF rq.restart /\ actor \in DOMAIN users
                THEN Goes([users EXCEPT ![actor] =
                              [current_user EXCEPT !.level_start_date = Today]],
                          entries, audit_logs, rq.restart)
                ELSE on
          [] OTHER ->
                IF rq.restart
                THEN Goes(users, entries,
                          AuditLog_log_action(audit_logs, restart_kw,
                              AuditRec("cycle_restarted", actor, actor)),
                          rq.restart)
                ELSE on

\* A create_entry request in flight: at is the statement it is before, done
\* the statements it has run, status its answer once it has ended; entries0
\* is the entries file it found and current_user the user it loaded
EntryRequest(actor, date_string, sub, comment, at, done, restart, status, entries0) ==
    [fn |-> "create_entry", actor |-> actor, date_string |-> date_string,
     sub |-> sub, comment |-> comment, at |-> at, done |-> done,
     restart |-> restart, status |-> status, entries0 |-> entries0,
     current_user |-> users[actor]]

\* create_entry up to line 67 (the role and date checks), under log_activity
create_entry_begin ==
    \E actor \in {"s1", "s2", "mb1"}, rq \in CreateRequests :
        LET starts == create_entry_validates(actor, rq[1])
            res == IF starts THEN Reply(0)
                   ELSE log_activity(
                            Reply(IF users[actor].role # "Saalik" THEN 403
                                  ELSE 400), actor, "create_entry")
        IN  /\ Authenticated(actor)
            /\ call.fn = "create_entry" => call.status # 0
            /\ call' = EntryRequest(actor, rq[1], rq[2], rq[3], 1, <<>>, FALSE,
                                    res.status, entries)
            /\ users' = res.users
            /\ entries' = res.entries
            /\ audit_logs' = res.audit_logs
            /\ UNCHANGED <<last, callers, sessions, tokens>>

\* The next statement of the request in flight; after the last one the
\* response of lines 196-201, under log_activity
create_entry_step ==
    /\ call.fn = "create_entry"
    /\ call.status = 0
    /\ LET name == create_entry_order[call.at]
           out == create_entry_statement(name, call)
           last_one == call.at = Len(create_entry_order)
           res == IF out.status = 0 /\ last_one
                  THEN log_activity(Out(201, out.users, out.entries,
                                        out.audit_logs),
                                    call.actor, "create_entry")
                  ELSE IF out.status = 0 THEN out
                  ELSE log_activity(out, call.actor, "create_entry")
       IN  /\ call' = [call EXCEPT !.at = IF res.status = 0 THEN @ + 1 ELSE @,
                                   !.done = Append(@, name),
                                   !.restart = out.restart,
                                   !.status = res.status]
           /\ users' = res.users
           /\ entries' = res.entries
           /\ audit_logs' = res.audit_logs
    /\ UNCHANGED <<last, callers, sessions, tokens>>

StepsNext ==
    \/ create_entry_begin
    \/ create_entry_step
    \/ reset_user_cycle

SpecSteps == Init /\ [][StepsNext]_vars

\* bulk_cycle_reset with a reset_date in the body
bulk_cycle_reset_on_date ==
    \E actor \in {"adm", "mb1"}, user_ids \in {{"s1"}, {"s2"}, {"s1", "s2"}},
       reset_date \in {DateString(Today + 1, TRUE), DateString(Today - 1, TRUE),
                       DateString(Today, FALSE)} :
        LET res == bulk_cycle_reset_handler(actor, user_ids, <<reset_date>>, {})
        IN  /\ Authenticated(actor)
            /\ Commit(res)
            /\ last' = [Request("bulk_cycle_reset", actor, None, {}, 0,
                                FALSE, FALSE, FALSE,
                                role_required(users[actor].role, {"Admin"}, {}),
                                res)
                        EXCEPT !.date_string = reset_date]

ResetsNext ==
    \/ create_user
    \/ reset_user_cycle
    \/ bulk_cycle_reset_on_date
    \/ create_entry

SpecResets == Init /\ [][ResetsNext]_vars

\* update_user with a body of cycle_days alone
update_user_cycle_days ==
    \E actor \in {"adm", "mb1", "s1"}, user_id \in {"s1", "s2"},
       cycle_days \in CycleDaysPayloads :
        LET data == [fields |-> {"cycle_days"}, cycle_days |-> cycle_days]
            res == update_user_handler(actor, user_id, data)
        IN  /\ Authenticated(actor)
            /\ Commit(res)
            /\ last' = [Request("update_user", actor, user_id, {}, 0,
                                FALSE, FALSE, FALSE, TRUE, res)
                        EXCEPT !.cycle_days = cycle_days]

CycleNext ==
    \/ create_user
    \/ update_user_cycle_days

SpecCycle == Init /\ [][CycleNext]_vars

\* helpers.get_user_hierarchy_chain(user): the ids appended to chain, and
\* whether the while loop ends.  The loop follows murabi_id and keeps no
\* count: once it is at a user it was at before, it repeats for ever.
RECURSIVE get_user_hierarchy_chain(_, _, _)
get_user_hierarchy_chain(user_id, chain, been_at) ==
    LET current_user == users[user_id]
        murabi == User_find_by_id(current_user.murabi_id)
    IN  IF current_user.murabi_id = None \/ murabi = NotFound
        THEN [chain |-> chain, ends |-> TRUE]
        ELSE IF user_id \in been_at
        THEN [chain |-> chain, ends |-> FALSE]
        ELSE get_user_hierarchy_chain(current_user.murabi_id,
                                      Append(chain, current_user.murabi_id),
                                      been_at \cup {user_id})

\* The users whose murabi_id the stores of SpecWalk vary
WalkUsers == {"mb1", "mb2", "s1", "s2"}

\* A users file with any murabi_id references among WalkUsers: none, a
\* stored user (the user itself included), or the id of no stored user
InitWalk ==
    /\ \E m \in [WalkUsers -> WalkUsers \cup {None, NoUser}] :
           users = [u \in UserIds |->
                       IF u \in WalkUsers
                       THEN [SeedUsers[u] EXCEPT !.murabi_id = m[u]]
                       ELSE SeedUsers[u]]
    /\ entries \in SeedEntrySets
    /\ audit_logs = {}
    /\ last = NoRequest
    /\ callers = [c \in Callers |-> Idle]
    /\ call = NoCall
    /\ sessions = NoSessions
    /\ tokens = {}

\* get_user_hierarchy_chain applied to a stored user (users.py:265)
call_get_user_hierarchy_chain ==
    \E user_id \in WalkUsers :
        /\ call' = [fn |-> "get_user_hierarchy_chain", user_id |-> user_id,
                    result |-> get_user_hierarchy_chain(user_id, <<>>, {})]
        /\ UNCHANGED <<users, entries, audit_logs, last, callers, sessions, tokens>>

SpecWalk == InitWalk /\ [][call_get_user_hierarchy_chain]_vars

\* create_entry submitted to a store in which the Saalik s2 is at a level
\* that has no catalog record (the API sets no such level: update_user,
\* create_user and bulk_level_update check validate_saalik_level)
InitLevels ==
    /\ users \in {[SeedUsers EXCEPT !["s2"].level = l] :
                     l \in {0, 3, 6, UncataloguedLevel}}
    /\ entries \in SeedEntrySets
    /\ audit_logs = {}
    /\ last = NoRequest
    /\ callers = [c \in Callers |-> Idle]
    /\ call = NoCall
    /\ sessions = NoSessions
    /\ tokens = {}

LevelsNext == create_entry

SpecLevels == InitLevels /\ [][LevelsNext]_vars

-----------------------------------------------------------------------------
(* Properties                                                              *)

\* The last request was a submission that passed create_entry's checks and
\* reported Zikr as not completed
MissedZikrSubmission ==
    last.op = "create_entry" /\ last.accepted /\ ~last.zikr

\* C1: after a Saalik in auto_restart mode submitted an entry that passes the
\* checks and whose Zikr is not completed, the Saalik's level_start_date is
\* today and the audit log holds a cycle_restarted record for that Saalik.
C1_AutoRestartResetsCycle ==
    (MissedZikrSubmission
        /\ users[last.actor].settings.zikr_mode = "auto_restart")
    => /\ users[last.actor].level_start_date = Today
       /\ \E r \in audit_logs :
              r.action = "cycle_restarted" /\ r.resource_id = last.actor

C3_MandatoryZikrRestartOrViolation ==
    (MissedZikrSubmission
        /\ users[last.actor].settings.zikr_mode = "murabi_controlled"
        /\ users[last.actor].settings.zikr_mandatory)
    => IF users[last.actor].settings.auto_restart_on_missed_zikr
       THEN users[last.actor].level_start_date = Today
       ELSE \E e \in entries :
                /\ e.user_id = last.actor
                /\ e.date = last.date
                /\ ~e.zikr_completed

\* The Saalik whose entries a get_entries / get_entry request asks for
\* (None when the request names no stored Saalik)
EntriesOf(target) ==
    IF target \in DOMAIN users THEN target
    ELSE IF \E e \in entries : e._id = target
    THEN (CHOOSE e \in entries : e._id = target).user_id
    ELSE None

\* C4: a get_entries(user_id) or get_entry request of a Murabi who is not the
\* target Saalik's murabi_id is not served, and one of a Masool who is the
\* masool_id of the target Saalik's Murabi is served (200).
C4_EntryVisibilityFollowsHierarchy ==
    (last.op \in {"get_entries", "get_entry"} /\ EntriesOf(last.target) # None)
    => LET saalik == users[EntriesOf(last.target)]
           actor == users[last.actor]
       IN  /\ (actor.role = "Murabi" /\ saalik.murabi_id # last.actor)
                 => last.status # 200
           /\ (/\ actor.role = "Masool"
               /\ saalik.murabi_id \in DOMAIN users
               /\ users[saalik.murabi_id].masool_id = last.actor)
                 => last.status = 200

\* C5: a request of a Saalik that targets another user's record or another
\* user's entry is refused and changes neither the users nor the entries.
C5_SaalikOnlyOwnRecords ==
    (/\ last.op # "none"
     /\ users[last.actor].role = "Saalik"
     /\ EntriesOf(last.target) # None
     /\ EntriesOf(last.target) # last.actor)
    => (last.status # 200 /\ ~last.changed)

\* C6: delete_entry removes nothing but the entry it names, removes it only
\* for a Masool, Sheikh or Admin actor, and never for a Murabi or Saalik
\* actor, whatever the request carries.
C6_DeleteOnlyByMasoolAndAbove ==
    [][last'.op = "delete_entry"
       => /\ entries' \subseteq entries
          /\ \A e \in entries \ entries' : e._id = last'.target
          /\ users[last'.actor].role \in {"Murabi", "Saalik"}
                => entries' = entries]_vars

\* C6's case: a Murabi or Saalik whose request entered the delete_entry
\* handler asked to delete a stored entry.
C6_Witness ==
    /\ last.op = "delete_entry"
    /\ users[last.actor].role \in {"Murabi", "Saalik"}
    /\ last.ran
    /\ \E e \in entries : e._id = last.target

\* The roles the role_required decorator of each gated operation lists
GatedRoles(op) ==
    CASE op = "delete_entry" -> {"Masool", "Sheikh", "Admin"}
      [] op = "reset_user_cycle" -> {"Murabi", "Masool", "Sheikh", "Admin"}
      [] op = "activate_user" -> {"Sheikh", "Admin"}
      [] op = "bulk_cycle_reset" -> {"Admin"}
      [] OTHER -> ROLES

\* C7: a request to an operation decorated role_required(R) by an actor whose
\* role is not in R is answered 403 and the handler body is not entered,
\* whatever the payload holds.
C7_RoleRequiredIgnoresPayload ==
    (last.op # "none" /\ users[last.actor].role \notin GatedRoles(last.op))
    => (last.status = 403 /\ ~last.ran)

\* The operations whose target is a user id
UserTargetOps ==
    {"get_entries", "get_entry_summary", "get_user", "update_user",
     "reset_user_cycle", "activate_user"}

\* C8: a request whose handler is entered with the id of a user that is not
\* stored is answered 404, and a Saalik's request for another stored user is
\* answered 403.
C8_NotFoundVersusForbidden ==
    (last.op \in UserTargetOps /\ last.ran /\ last.target # None)
    => /\ last.target \notin DOMAIN users => last.status = 404
       /\ (/\ last.target \in DOMAIN users
           /\ last.target # last.actor
           /\ users[last.actor].role = "Saalik"
           /\ last.rr = {})
             => last.status = 403

\* C9: at most one entry is stored per (user_id, date), and after a
\* submission that passed the checks for a day that already had an entry, the
\* stored entry of that day holds the submitted Zikr completion.
C9_SecondSubmissionOverwrites ==
    /\ \A e1, e2 \in entries :
           (e1.user_id = e2.user_id /\ e1.date = e2.date) => e1 = e2
    /\ (last.op = "create_entry" /\ last.accepted /\ last.existed)
       => \E e \in entries :
              /\ e.user_id = last.actor
              /\ e.date = last.date
              /\ ZikrDone(e.categories) = last.zikr

\* C10: when two callers have both saved an entry for the same user and day,
\* each after its own lookup, at most one entry of that user and day is
\* stored: the storage rejects or merges the second insert.
C10_StorageKeepsOneEntryPerDay ==
    (/\ callers["c1"].pc = "saved"
     /\ callers["c2"].pc = "saved"
     /\ callers["c1"].user_id = callers["c2"].user_id
     /\ callers["c1"].date = callers["c2"].date)
    => Cardinality({e \in entries : /\ e.user_id = callers["c1"].user_id
                                    /\ e.date = callers["c1"].date}) <= 1

\* The creation rule table: the roles an actor of each role may create
CreationRules ==
    [r \in ROLES |->
        CASE r = "Admin" -> {"Sheikh", "Masool", "Murabi", "Saalik", "Admin"}
          [] r = "Sheikh" -> {"Masool", "Murabi"}
          [] r = "Masool" -> {"Murabi", "Saalik"}
          [] r = "Murabi" -> {"Saalik"}
          [] OTHER -> {}]

\* The users stored by create_user with the given role
CreatedWithRole(role) ==
    {u \in DOMAIN users \ UserIds : users[u].role = role}

\* C11: a well-formed create_user request stores a new user of the requested
\* role when the creation rule table lists the pair (actor's role, requested
\* role); for every other pair it is not served and stores nothing.
C11_CreateUserFollowsRuleTable ==
    (last.op = "create_user" /\ last.accepted)
    => IF last.role \in CreationRules[users[last.actor].role]
       THEN last.changed /\ CreatedWithRole(last.role) # {}
       ELSE last.status # 201 /\ ~last.changed

\* C12: after a Murabi's well-formed create_user request for the role Saalik,
\* a new Saalik is stored whose murabi_id is the creating Murabi.
C12_MurabiCreatesOwnSaalik ==
    (/\ last.op = "create_user"
     /\ last.accepted
     /\ users[last.actor].role = "Murabi"
     /\ last.role = "Saalik")
    => \E u \in CreatedWithRole("Saalik") : users[u].murabi_id = last.actor

\* The routes of SpecSessions that authenticate with any token the client
\* holds
TokenRoutes ==
    {"get_current_user_info", "logout", "refresh_token", "revoke_session"}

C14_SessionValidIffActiveAndUnexpired ==
    call.fn = "Session.is_valid"
    => (call.result = "valid" <=> (call.is_active /\ call.now < call.expires_at))

\* C17: the zikr_completed value computed for a submission (create_entry
\* computes it with calculate_zikr_completion_status) is true exactly when
\* every morning item and every evening item is done, an empty list
\* counting as all done.
C17_ZikrCompletedIsAllItemsDone ==
    call.fn = "zikr_completion"
    => (call.calculate_zikr_completion_status
        <=> ((\A i \in DOMAIN call.morning : call.morning[i])
             /\ (\A i \in DOMAIN call.evening : call.evening[i])))

\* C19: for cycle_days > 0 and level_start_date <= today,
\* calculate_cycle_progress returns 0 <= current_day <= cycle_days,
\* progress_percentage equal to 100 * current_day / cycle_days up to the
\* rounding to two decimals, and is_completed exactly when current_day
\* equals cycle_days.
C19_CycleProgressWithinCycle ==
    (/\ call.fn = "calculate_cycle_progress"
     /\ call.cycle_days > 0
     /\ call.level_start_date # <<>>
     /\ call.level_start_date[1] <= Today)
    => LET r == call.result
           off == r.progress_percentage * call.cycle_days - 10000 * r.current_day
       IN  /\ 0 <= r.current_day
           /\ r.current_day <= call.cycle_days
           /\ 2 * off <= call.cycle_days
           /\ 2 * off >= 0 - call.cycle_days
           /\ r.is_completed <=> (r.current_day = call.cycle_days)

\* The cap at cycle_days is reached: more days elapsed than the cycle has
C19_Witness ==
    /\ call.fn = "calculate_cycle_progress"
    /\ call.cycle_days = 3
    /\ call.level_start_date = <<Today - 3>>
    /\ call.result.current_day = 3
    /\ call.result.is_completed

\* C20: for a user without level_start_date, calculate_cycle_progress
\* returns current_day = 0, progress_percentage = 0, days_remaining =
\* cycle_days and is_completed = false, for every cycle_days.
C20_NoStartDateNoProgress ==
    (/\ call.fn = "calculate_cycle_progress"
     /\ call.level_start_date = <<>>)
    => /\ call.result.current_day = 0
       /\ call.result.progress_percentage = 0
       /\ call.result.days_remaining = call.cycle_days
       /\ call.result.is_completed = FALSE

\* A user without level_start_date whose cycle has forty days
C20_Witness ==
    /\ call.fn = "calculate_cycle_progress"
    /\ call.level_start_date = <<>>
    /\ call.cycle_days = 40
    /\ call.result.days_remaining = 40

\* The categories a submission holds as keys of data['categories'], the
\* submitted categories map
SubmittedCategories(sub) ==
    IF sub.wrapped THEN [c \in Categories |-> "absent"] ELSE sub.cats

\* The required categories of a level that a submission does not hold as an
\* object with a boolean completed field
Offending(sub, level) ==
    LET required == default_levels[level]
    IN  {required[i] : i \in DOMAIN required}
        \ {c \in Categories : SubmittedCategories(sub)[c] \in {"true", "false"}}

\* C15: entry validation in create_entry accepts a submitted categories map
\* if and only if every category the level's catalog record requires is in
\* the map as an object with a boolean completed field, and otherwise fails
\* with an error that names an offending required category.
C15_ValidationAcceptsRequiredCategories ==
    (/\ last.op = "create_entry"
     /\ last.validated
     /\ last.sub # NonDict
     /\ users[last.actor].level \in DOMAIN default_levels)
    => LET offending == Offending(last.sub, users[last.actor].level)
       IN  /\ last.error = NoError <=> offending = {}
           /\ last.error # NoError => last.error.category \in offending

\* C16: for a user whose level has no catalog record, entry validation
\* returns a failure that is about no category, the handler body answers
\* 400, and create_entry stores no entry and changes no user.
C16_UncataloguedLevelFailsValidation ==
    (/\ last.op = "create_entry"
     /\ last.validated
     /\ users[last.actor].level \notin DOMAIN default_levels)
    => /\ last.error # NoError
       /\ last.error.category = ""
       /\ last.body = 400
       /\ ~last.changed

\* The Saalik at the uncatalogued level submits what level 0 requires
C16_Witness ==
    /\ last.op = "create_entry"
    /\ last.validated
    /\ users[last.actor].level = UncataloguedLevel
    /\ last.sub = Sub(TRUE, {"farayz"}, "true")
    /\ last.error = Error("Invalid user level", "")

\* C18: create_entry stores or updates an entry only for a date d with
\* today - 7 <= d <= today, and a Saalik's submission dated in the future or
\* more than 7 days back is answered with a validation error (400) and
\* leaves the entries and the users unchanged.
C18_EntryDateWithinWindow ==
    (last.op = "create_entry" /\ last.date_string.known_format)
    => LET d == last.date_string.day
           in_window == Today - StaleDays <= d /\ d <= Today
       IN  /\ last.changed => in_window
           /\ (users[last.actor].role = "Saalik" /\ ~in_window)
              => (last.status = 400 /\ ~last.changed)

\* The set of the required_fields of a catalog record
FieldsOf(level_obj) ==
    {level_obj.required_fields[i] : i \in DOMAIN level_obj.required_fields}

\* C25: in the seeded catalog, for every N in 1..6 the required_fields of
\* level N are a superset of the required_fields of level N-1.
C25_LevelsAreCumulative ==
    (call.fn = "Level.find_by_level" /\ call.level \in 1..6)
    => /\ call.result # NotFound
       /\ Level_find_by_level(call.level - 1) # NotFound
       /\ FieldsOf(Level_find_by_level(call.level - 1)) \subseteq FieldsOf(call.result)

\* Level 4 is looked up: it adds sleep_wake to what level 3 requires
C25_Witness ==
    /\ call.fn = "Level.find_by_level"
    /\ call.level = 4
    /\ FieldsOf(call.result) \ FieldsOf(Level_find_by_level(3)) = {"sleep_wake"}

\* C24: the upward hierarchy walk from any user ends for every content of
\* the user store, a missing, dangling or cyclic parent reference included,
\* after visiting at most 3 ancestors.
C24_HierarchyWalkEnds ==
    call.fn = "get_user_hierarchy_chain"
    => (call.result.ends /\ Len(call.result.chain) <= 3)

\* C30: after any sequence of create_user and update_user requests every
\* stored user has a cycle_days greater than 0, within the validated range
\* 7..365.
C30_CycleDaysWithinRange ==
    \A u \in DOMAIN users :
        /\ users[u].cycle_days > 0
        /\ users[u].cycle_days >= MIN_CYCLE_DAYS
        /\ users[u].cycle_days <= MAX_CYCLE_DAYS

\* update_user has stored both ends of the range, and a request with a
\* cycle_days beyond it has left the users as they were
C30_Witness ==
    /\ last.op = "update_user"
    /\ last.cycle_days = CycleDays(TRUE, MAX_CYCLE_DAYS + 1)
    /\ last.ran /\ ~last.changed
    /\ users["s1"].cycle_days = MIN_CYCLE_DAYS
    /\ users["s2"].cycle_days = MAX_CYCLE_DAYS

\* C29: after any sequence of create_user, reset_user_cycle,
\* bulk_cycle_reset and create_entry requests every stored user's
\* level_start_date is absent or not later than today.
C29_StartDateNotInFuture ==
    \A u \in DOMAIN users : users[u].level_start_date <= Today

\* The cycle_restarted records of an audit log
CycleRestarts(logs) == {r \in logs : r.action = "cycle_restarted"}

RanWithout(done, a, b) ==
    \E i \in 1..Len(done) :
        done[i] = a /\ \A j \in 1..(i - 1) : done[j] # b

C23_AuditFailureKeepsSuccess ==
    (/\ last.op \in {"create_entry", "create_user", "update_user",
                      "reset_user_cycle", "delete_entry"}
     /\ last.changed)
    => last.status \in {200, 201}

\* C26: for every new user u, after u.save() the lookup
\* User.find_by_id(u._id) returns a user with the same name, phone, role and
\* parent references as u.
C26_UserRoundTrip ==
    call.fn = "User.save"
    => /\ call.result.name = call.user.name
       /\ call.result.phone = call.user.phone
       /\ call.result.role = call.user.role
       /\ call.result.murabi_id = call.user.murabi_id
       /\ call.result.masool_id = call.user.masool_id
       /\ call.result.sheikh_id = call.user.sheikh_id

\* C28: when a cycle restart and a level change of the same user have both
\* been saved, each having loaded the user before the other saved, the
\* stored record has both the new level_start_date and the new level.
C28_RestartAndLevelChangeBothKept ==
    \A c, d \in Callers :
        (/\ callers[c].pc = "saved" /\ callers[c].op = "reset_user_cycle"
         /\ callers[d].pc = "saved" /\ callers[d].op = "update_user"
         /\ callers[c].user_id = callers[d].user_id
         /\ callers[c].first /\ callers[d].first)
        => /\ users[callers[c].user_id].level_start_date = Today
           /\ users[callers[c].user_id].level = callers[d].level

=============================================================================
